---- MODULE Spec2Model ----
(***************************************************************************)
(* The Uno rules engine of src/uno_game (card.rs, player.rs, game.rs) as a *)
(* state machine.  One variable holds the UnoGame aggregate, one the       *)
(* aggregate as the last call found it, one that call and its outcome;     *)
(* each public operation is one action.  The callers of the engine follow: *)
(* the HTTP handlers of api.rs over the session files of session.rs, the   *)
(* console controller of controller.rs and the console binary of main.rs.  *)
(***************************************************************************)
EXTENDS Integers, Sequences, FiniteSets, TLC

VARIABLES
    game,      \* the UnoGame value: players, deck, discard_pile, current_turn,
               \* direction, pending_draws, status
    before,    \* the UnoGame value as it was when the last call was made
    result,    \* the last call and what it returned (Ok(event), Err(..), panic)
    ops,       \* number of calls so far that returned Ok
    draws,     \* number of draw_card calls so far that returned Ok
    sessions,  \* the session files of the API server's sessions_dir, by id
    inflight   \* the API requests that loaded their session and have not
               \* answered yet, with the session each loaded

vars == <<game, before, result, ops, draws, sessions, inflight>>

\* the state of the API server
server == <<sessions, inflight>>

\* an empty sessions_dir, and no request in flight
NoSessions == [id \in {} |-> {}]
NoRequests == [r \in {} |-> {}]

----------------------------------------------------------------------------
(* Bounds of the exploration *)

\* successful calls explored per game (two-player games are won within 11)
MaxOps == 12

\* successful draw_card calls explored per game
MaxDraws == 1

\* hands of at most this many cards are played at every index; of a longer
\* hand the callers try the first card and the first index past the end
MaxFreeHand == 2

----------------------------------------------------------------------------
(* card.rs *)

Colors == <<"Red", "Green", "Blue", "Yellow">>

None == "None"

Number(n) == [tag |-> "Number", n |-> n]
Skip == [tag |-> "Skip"]
Reverse == [tag |-> "Reverse"]
DrawTwo == [tag |-> "DrawTwo"]
Wild == [tag |-> "Wild"]
WildDrawFour == [tag |-> "WildDrawFour"]

\* Card::new
NewCard(color, card_type) ==
    [color |-> color, card_type |-> card_type, player_id |-> None]

----------------------------------------------------------------------------
(* player.rs *)

\* Player::new
NewPlayer(id, name) == [id |-> id, name |-> name, hand |-> <<>>]

\* Player::add_card
add_card(player, card) == [player EXCEPT !.hand = Append(@, card)]

----------------------------------------------------------------------------
(* Vec helpers: a Vec is a sequence, Rust index i is TLA+ index i + 1 *)

\* mutant of VecRemove: the element is cloned and stays in the vector
VecRemove_clone(v, i) == v

\* Vec::remove(i): the vector without the element at Rust index i
VecRemove(v, i) == SubSeq(v, 1, i) \o SubSeq(v, i + 2, Len(v))

\* Vec::pop on a non-empty vector: the last element leaves
VecPopped(v) == SubSeq(v, 1, Len(v) - 1)

VecLast(v) == v[Len(v)]

----------------------------------------------------------------------------
(* game.rs: values *)

InProgress == [tag |-> "InProgress"]
Complete(winner_id) == [tag |-> "Complete", winner_id |-> winner_id]

Clockwise == "Clockwise"
CounterClockwise == "CounterClockwise"

\* mutant of DirectionReverse: the direction is set to CounterClockwise
\* whatever it was
DirectionReverse_to_counter(d) == CounterClockwise

\* Direction::reverse
DirectionReverse(d) == IF d = Clockwise THEN CounterClockwise ELSE Clockwise

\* usize::MAX, the seat recorded for the card that seeds the discard pile;
\* only its being different from every seat id matters
UsizeMax == 2147483647

\* Result values: Ok(v), Err(e) and a panic (an out-of-bounds index)
Ok(v) == [kind |-> "Ok", value |-> v]
Err(e) == [kind |-> "Err", error |-> e]
Panic == [kind |-> "Panic"]

\* the error types: play_card returns Err(String), the rest Err(GameError)
ErrString(msg) == [type |-> "String", msg |-> msg]
GameError(variant) == [type |-> "GameError", variant |-> variant]

----------------------------------------------------------------------------
(* game.rs: deck construction *)

\* mutant of ColorCards: the 0 card is pushed twice, like the other numbers
ColorCards_two_zeros(color) ==
    [i \in 1..20 |-> NewCard(color, Number((i - 1) \div 2))]
    \o [i \in 1..6 |-> NewCard(color, <<Skip, Reverse, DrawTwo>>[((i - 1) % 3) + 1])]

\* the 25 cards pushed for one color, in push order
ColorCards(color) ==
    <<NewCard(color, Number(0))>>
    \o [i \in 1..18 |-> NewCard(color, Number((i + 1) \div 2))]
    \o [i \in 1..6 |-> NewCard(color, <<Skip, Reverse, DrawTwo>>[((i - 1) % 3) + 1])]

WildCards ==
    [i \in 1..8 |-> NewCard("Wild", IF i % 2 = 1 THEN Wild ELSE WildDrawFour)]

\* the deck of initialize_deck before deck.shuffle
UnshuffledDeck ==
    ColorCards(Colors[1]) \o ColorCards(Colors[2]) \o ColorCards(Colors[3])
    \o ColorCards(Colors[4]) \o WildCards

DeckSize == Len(UnshuffledDeck)

\* deck.shuffle yields some permutation of the deck.  The permutations
\* explored: card i of the shuffled deck is card (stride * i + offset) of
\* the unshuffled one, modulo the deck size, for a stride coprime to it.
Shuffle(deck, stride, offset) ==
    [i \in 1..Len(deck) |-> deck[((stride * (i - 1) + offset) % Len(deck)) + 1]]

\* initialize_deck, with the permutation the shuffle picked
initialize_deck(stride, offset) == Shuffle(UnshuffledDeck, stride, offset)

----------------------------------------------------------------------------
(* game.rs: UnoGame::new *)

\* cards dealt to each player
HandSize == 7

\* mutant of DealRound: the card dealt is taken from the front of the deck
\* (Vec::remove(0)) instead of its back (Vec::pop)
RECURSIVE DealRound_from_front(_, _, _)
DealRound_from_front(players, deck, p) ==
    IF p = Len(players)
    THEN [ok |-> TRUE, players |-> players, deck |-> deck]
    ELSE IF Len(deck) = 0
    THEN [ok |-> FALSE, players |-> players, deck |-> deck]
    ELSE DealRound_from_front([players EXCEPT ![p + 1] = add_card(@, deck[1])],
                              VecRemove(deck, 0), p + 1)

\* the inner loop of the deal: players p, p + 1, ... each take the deck's
\* top card; ok = FALSE when the deck is empty at some player's turn to take
RECURSIVE DealRound(_, _, _)
DealRound(players, deck, p) ==
    IF p = Len(players)
    THEN [ok |-> TRUE, players |-> players, deck |-> deck]
    ELSE IF Len(deck) = 0
    THEN [ok |-> FALSE, players |-> players, deck |-> deck]
    ELSE DealRound([players EXCEPT ![p + 1] = add_card(@, VecLast(deck))],
                   VecPopped(deck), p + 1)

\* the outer loop of the deal: rounds round, round + 1, ... up to HandSize
RECURSIVE Deal(_, _, _)
Deal(players, deck, round) ==
    IF round = HandSize
    THEN [ok |-> TRUE, players |-> players, deck |-> deck]
    ELSE LET dealt == DealRound(players, deck, 0)
         IN  IF ~dealt.ok THEN dealt ELSE Deal(dealt.players, dealt.deck, round + 1)

\* mutant of new: the deal unwraps deck.pop(), so a deck that runs out
\* during the deal panics
new_deal_unwrap(player_names, deck) ==
    LET players == [i \in 1..Len(player_names) |-> NewPlayer(i - 1, player_names[i])]
        dealt == Deal(players, deck, 0)
    IN  IF ~dealt.ok
        THEN Panic
        ELSE IF Len(dealt.deck) = 0
        THEN Err(GameError("EmptyDeck"))
        ELSE Ok([players |-> dealt.players,
                 deck |-> VecPopped(dealt.deck),
                 discard_pile |-> <<<<VecLast(dealt.deck), UsizeMax>>>>,
                 current_turn |-> 0,
                 direction |-> Clockwise,
                 pending_draws |-> 0,
                 status |-> InProgress])

\* UnoGame::new(player_names), on the deck initialize_deck returned
new(player_names, deck) ==
    LET players == [i \in 1..Len(player_names) |-> NewPlayer(i - 1, player_names[i])]
        dealt == Deal(players, deck, 0)
    IN  IF ~dealt.ok \/ Len(dealt.deck) = 0
        THEN Err(GameError("EmptyDeck"))
        ELSE Ok([players |-> dealt.players,
                 deck |-> VecPopped(dealt.deck),
                 discard_pile |-> <<<<VecLast(dealt.deck), UsizeMax>>>>,
                 current_turn |-> 0,
                 direction |-> Clockwise,
                 pending_draws |-> 0,
                 status |-> InProgress])

----------------------------------------------------------------------------
(* game.rs: turn primitives and the legality check *)

\* mutant of next_turn: counter-clockwise the seat is decremented and stops
\* at seat 0 instead of wrapping to the last seat
next_turn_no_wrap(g) ==
    LET num_players == Len(g.players)
    IN  IF g.direction = Clockwise
        THEN [g EXCEPT !.current_turn = (g.current_turn + 1) % num_players]
        ELSE [g EXCEPT !.current_turn = IF @ = 0 THEN 0 ELSE @ - 1]

\* UnoGame::next_turn
next_turn(g) ==
    LET num_players == Len(g.players)
    IN  IF g.direction = Clockwise
        THEN [g EXCEPT !.current_turn = (g.current_turn + 1) % num_players]
        ELSE [g EXCEPT !.current_turn = (g.current_turn + num_players - 1) % num_players]

\* UnoGame::reverse_direction
reverse_direction(g) == [g EXCEPT !.direction = DirectionReverse(g.direction)]

\* mutant of can_play_card: a Skip, Reverse or DrawTwo also goes on a card of
\* its own kind, as a Number goes on its own rank
can_play_card_same_kind(card, top_card) ==
    IF card.color = "Wild" \/ card.card_type.tag \in {"Wild", "WildDrawFour"}
    THEN TRUE
    ELSE IF top_card.color = "Wild"
    THEN TRUE
    ELSE \/ card.color = top_card.color
         \/ card.card_type = top_card.card_type

\* UnoGame::can_play_card(card, top_card)
can_play_card(card, top_card) ==
    IF card.color = "Wild" \/ card.card_type.tag \in {"Wild", "WildDrawFour"}
    THEN TRUE
    ELSE IF top_card.color = "Wild"
    THEN TRUE
    ELSE \/ card.color = top_card.color
         \/ /\ card.card_type.tag = "Number"
            /\ top_card.card_type.tag = "Number"
            /\ card.card_type.n = top_card.card_type.n

----------------------------------------------------------------------------
(* game.rs: play_card and draw_card.  Each yields the game after the call   *)
(* and the value returned.                                                  *)

Outcome(g, ret) == [game |-> g, ret |-> ret]

CardPlayed(player_id, player_name, card) ==
    [tag |-> "CardPlayed", player_id |-> player_id, player_name |-> player_name,
     card |-> card]
CardDrawn(player_id, card) ==
    [tag |-> "CardDrawn", player_id |-> player_id, card |-> card]
DrawTwoEvent(player_id, cards) ==
    [tag |-> "DrawTwo", player_id |-> player_id, cards |-> cards]
PlayerWins(player_id) == [tag |-> "PlayerWins", player_id |-> player_id]

\* mutant of card_effect: a Skip advances the turn once, like a Number
card_effect_skip_once(g, card_type) ==
    CASE card_type.tag = "Reverse" -> next_turn(reverse_direction(g))
      [] card_type.tag = "DrawTwo" -> next_turn([g EXCEPT !.pending_draws = 2])
      [] card_type.tag = "WildDrawFour" -> next_turn([g EXCEPT !.pending_draws = 4])
      [] OTHER -> next_turn(g)

\* mutant of card_effect: a Reverse advances the turn before it toggles the
\* direction
card_effect_reverse_after(g, card_type) ==
    CASE card_type.tag = "Skip" -> next_turn(next_turn(g))
      [] card_type.tag = "Reverse" -> reverse_direction(next_turn(g))
      [] card_type.tag = "DrawTwo" -> next_turn([g EXCEPT !.pending_draws = 2])
      [] card_type.tag = "WildDrawFour" -> next_turn([g EXCEPT !.pending_draws = 4])
      [] OTHER -> next_turn(g)

\* mutant of card_effect: a DrawTwo adds its two cards to what is owed already
card_effect_draw_two_stacks(g, card_type) ==
    CASE card_type.tag = "Skip" -> next_turn(next_turn(g))
      [] card_type.tag = "Reverse" -> next_turn(reverse_direction(g))
      [] card_type.tag = "DrawTwo" -> next_turn([g EXCEPT !.pending_draws = @ + 2])
      [] card_type.tag = "WildDrawFour" -> next_turn([g EXCEPT !.pending_draws = 4])
      [] OTHER -> next_turn(g)

\* mutant of card_effect: a WildDrawFour makes the next player skip the turn
\* it would spend drawing
card_effect_draw_four_skips(g, card_type) ==
    CASE card_type.tag = "Skip" -> next_turn(next_turn(g))
      [] card_type.tag = "Reverse" -> next_turn(reverse_direction(g))
      [] card_type.tag = "DrawTwo" -> next_turn([g EXCEPT !.pending_draws = 2])
      [] card_type.tag = "WildDrawFour" ->
             next_turn(next_turn([g EXCEPT !.pending_draws = 4]))
      [] OTHER -> next_turn(g)

\* mutant of card_effect: a WildDrawFour adds its four cards to what is owed
\* already
card_effect_draw_four_stacks(g, card_type) ==
    CASE card_type.tag = "Skip" -> next_turn(next_turn(g))
      [] card_type.tag = "Reverse" -> next_turn(reverse_direction(g))
      [] card_type.tag = "DrawTwo" -> next_turn([g EXCEPT !.pending_draws = 2])
      [] card_type.tag = "WildDrawFour" -> next_turn([g EXCEPT !.pending_draws = @ + 4])
      [] OTHER -> next_turn(g)

\* mutant of card_effect: a DrawTwo hands its two cards to the next player at
\* once when the deck has them, instead of leaving them pending
card_effect_draw_two_deals(g, card_type) ==
    CASE card_type.tag = "Skip" -> next_turn(next_turn(g))
      [] card_type.tag = "Reverse" -> next_turn(reverse_direction(g))
      [] card_type.tag = "DrawTwo" ->
             LET n == next_turn(g) IN
             IF Len(g.deck) >= 2
             THEN [n EXCEPT !.deck = SubSeq(@, 1, Len(@) - 2),
                            !.players[n.current_turn + 1].hand =
                                @ \o <<g.deck[Len(g.deck)], g.deck[Len(g.deck) - 1]>>]
             ELSE [n EXCEPT !.pending_draws = 2]
      [] card_type.tag = "WildDrawFour" -> next_turn([g EXCEPT !.pending_draws = 4])
      [] OTHER -> next_turn(g)

\* play_card's match on the card type: the game after the played card's effect
card_effect(g, card_type) ==
    CASE card_type.tag = "Skip" -> next_turn(next_turn(g))
      [] card_type.tag = "Reverse" -> next_turn(reverse_direction(g))
      [] card_type.tag = "DrawTwo" -> next_turn([g EXCEPT !.pending_draws = 2])
      [] card_type.tag = "WildDrawFour" -> next_turn([g EXCEPT !.pending_draws = 4])
      [] OTHER -> next_turn(g)

\* mutant of resolve_play: the card's effect is applied before the win check
resolve_play_effect_first(g, player_id, player_name, card, is_hand_empty) ==
    LET after == card_effect(g, card.card_type)
    IN  IF is_hand_empty
        THEN Outcome([after EXCEPT !.status = Complete(player_id)],
                     Ok(PlayerWins(player_id)))
        ELSE Outcome(after, Ok(CardPlayed(player_id, player_name, card)))

\* mutant of resolve_play: the last card of a hand is announced as a win but
\* the status is left in progress
resolve_play_status_kept(g, player_id, player_name, card, is_hand_empty) ==
    IF is_hand_empty
    THEN Outcome(g, Ok(PlayerWins(player_id)))
    ELSE Outcome(card_effect(g, card.card_type),
                 Ok(CardPlayed(player_id, player_name, card)))

\* play_card once the card lies on the discard pile: the win check, then
\* the card's effect
resolve_play(g, player_id, player_name, card, is_hand_empty) ==
    IF is_hand_empty
    THEN Outcome([g EXCEPT !.status = Complete(player_id)], Ok(PlayerWins(player_id)))
    ELSE Outcome(card_effect(g, card.card_type),
                 Ok(CardPlayed(player_id, player_name, card)))

\* mutant of play_from_hand: the card leaves the hand by Vec::swap_remove,
\* which moves the hand's last card into its place
play_from_hand_swap_remove(g, player_id, card_index) ==
    IF player_id >= Len(g.players)
    THEN Outcome(g, Panic)
    ELSE
    LET player == g.players[player_id + 1] IN
    IF card_index >= Len(player.hand)
    THEN Outcome(g, Err(ErrString("Invalid card index")))
    ELSE
    LET card == player.hand[card_index + 1]
        hand == VecPopped([player.hand EXCEPT ![card_index + 1] = VecLast(player.hand)])
    IN  resolve_play([g EXCEPT !.players[player_id + 1].hand = hand,
                               !.discard_pile = Append(@, <<card, player_id>>)],
                     player_id, player.name, card, Len(hand) = 0)

\* play_card once the status and the turn are checked: the index check, the
\* card's move from the hand to the discard pile, and the resolution
play_from_hand(g, player_id, card_index) ==
    IF player_id >= Len(g.players)
    THEN Outcome(g, Panic)
    ELSE
    LET player == g.players[player_id + 1] IN
    IF card_index >= Len(player.hand)
    THEN Outcome(g, Err(ErrString("Invalid card index")))
    ELSE
    LET card == player.hand[card_index + 1]
        hand == VecRemove(player.hand, card_index)
    IN  resolve_play([g EXCEPT !.players[player_id + 1].hand = hand,
                               !.discard_pile = Append(@, <<card, player_id>>)],
                     player_id, player.name, card, Len(hand) = 0)

\* mutant of play_card: the turn is checked before the status
play_card_turn_first(g, player_id, card_index) ==
    IF player_id # g.current_turn
    THEN Outcome(g, Err(ErrString("Not your turn")))
    ELSE IF g.status.tag = "Complete"
    THEN Outcome(g, Err(ErrString("Game is already over")))
    ELSE play_from_hand(g, player_id, card_index)

\* mutant of play_card: the player is looked up before the turn is checked,
\* as draw_card does
play_card_lookup_first(g, player_id, card_index) ==
    IF g.status.tag = "Complete"
    THEN Outcome(g, Err(ErrString("Game is already over")))
    ELSE IF player_id >= Len(g.players)
    THEN Outcome(g, Panic)
    ELSE IF player_id # g.current_turn
    THEN Outcome(g, Err(ErrString("Not your turn")))
    ELSE play_from_hand(g, player_id, card_index)

\* UnoGame::play_card(player_id, card_index)
play_card(g, player_id, card_index) ==
    IF g.status.tag = "Complete"
    THEN Outcome(g, Err(ErrString("Game is already over")))
    ELSE IF player_id # g.current_turn
    THEN Outcome(g, Err(ErrString("Not your turn")))
    ELSE play_from_hand(g, player_id, card_index)

\* the loop of draw_card over the pending draws: `left` iterations remain,
\* `cards` collects what was drawn; ok = FALSE when the deck ran out
RECURSIVE DrawPending(_, _, _, _)
DrawPending(g, player_id, left, cards) ==
    IF left = 0
    THEN [ok |-> TRUE, game |-> g, cards |-> cards]
    ELSE IF Len(g.deck) = 0
    THEN [ok |-> FALSE, game |-> g, cards |-> cards]
    ELSE DrawPending([g EXCEPT !.deck = VecPopped(@),
                               !.players[player_id + 1].hand = Append(@, VecLast(g.deck))],
                     player_id, left - 1, Append(cards, VecLast(g.deck)))

\* mutant of draw_card: the pending draws are not reset once they are drawn
draw_card_pending_kept(g, player_id) ==
    IF player_id >= Len(g.players)
    THEN Outcome(g, Panic)
    ELSE IF g.pending_draws > 0
    THEN LET drawn == DrawPending(g, player_id, g.pending_draws, <<>>)
         IN  IF ~drawn.ok
             THEN Outcome(drawn.game, Err(GameError("EmptyDeck")))
             ELSE Outcome(next_turn(drawn.game),
                          Ok(DrawTwoEvent(player_id, drawn.cards)))
    ELSE IF Len(g.deck) > 0
    THEN Outcome(next_turn([g EXCEPT !.deck = VecPopped(@),
                                     !.players[player_id + 1].hand =
                                         Append(@, VecLast(g.deck))]),
                 Ok(CardDrawn(player_id, VecLast(g.deck))))
    ELSE Outcome(g, Err(GameError("EmptyDeck")))

\* mutant of draw_card: a normal draw leaves the turn to the caller
draw_card_no_advance(g, player_id) ==
    IF player_id >= Len(g.players)
    THEN Outcome(g, Panic)
    ELSE IF g.pending_draws > 0
    THEN LET drawn == DrawPending(g, player_id, g.pending_draws, <<>>)
         IN  IF ~drawn.ok
             THEN Outcome(drawn.game, Err(GameError("EmptyDeck")))
             ELSE Outcome(next_turn([drawn.game EXCEPT !.pending_draws = 0]),
                          Ok(DrawTwoEvent(player_id, drawn.cards)))
    ELSE IF Len(g.deck) > 0
    THEN Outcome([g EXCEPT !.deck = VecPopped(@),
                           !.players[player_id + 1].hand =
                               Append(@, VecLast(g.deck))],
                 Ok(CardDrawn(player_id, VecLast(g.deck))))
    ELSE Outcome(g, Err(GameError("EmptyDeck")))

\* mutant of draw_card: a pending draw that runs out of cards is rolled back
draw_card_rollback(g, player_id) ==
    IF player_id >= Len(g.players)
    THEN Outcome(g, Panic)
    ELSE IF g.pending_draws > 0
    THEN LET drawn == DrawPending(g, player_id, g.pending_draws, <<>>)
         IN  IF ~drawn.ok
             THEN Outcome(g, Err(GameError("EmptyDeck")))
             ELSE Outcome(next_turn([drawn.game EXCEPT !.pending_draws = 0]),
                          Ok(DrawTwoEvent(player_id, drawn.cards)))
    ELSE IF Len(g.deck) > 0
    THEN Outcome(next_turn([g EXCEPT !.deck = VecPopped(@),
                                     !.players[player_id + 1].hand =
                                         Append(@, VecLast(g.deck))]),
                 Ok(CardDrawn(player_id, VecLast(g.deck))))
    ELSE Outcome(g, Err(GameError("EmptyDeck")))

\* mutant of draw_card: a normal draw that finds the deck empty turns the
\* whole discard pile into the new deck before it reports EmptyDeck
draw_card_recycles(g, player_id) ==
    IF player_id >= Len(g.players)
    THEN Outcome(g, Panic)
    ELSE IF g.pending_draws > 0
    THEN LET drawn == DrawPending(g, player_id, g.pending_draws, <<>>)
         IN  IF ~drawn.ok
             THEN Outcome(drawn.game, Err(GameError("EmptyDeck")))
             ELSE Outcome(next_turn([drawn.game EXCEPT !.pending_draws = 0]),
                          Ok(DrawTwoEvent(player_id, drawn.cards)))
    ELSE IF Len(g.deck) > 0
    THEN Outcome(next_turn([g EXCEPT !.deck = VecPopped(@),
                                     !.players[player_id + 1].hand =
                                         Append(@, VecLast(g.deck))]),
                 Ok(CardDrawn(player_id, VecLast(g.deck))))
    ELSE Outcome([g EXCEPT !.deck = [i \in 1..Len(g.discard_pile) |->
                                        g.discard_pile[i][1]],
                           !.discard_pile = <<>>],
                 Err(GameError("EmptyDeck")))

\* mutant of draw_card: a normal draw hands out a copy of the deck's top card
\* and leaves the card on the deck
draw_card_peeks(g, player_id) ==
    IF player_id >= Len(g.players)
    THEN Outcome(g, Panic)
    ELSE IF g.pending_draws > 0
    THEN LET drawn == DrawPending(g, player_id, g.pending_draws, <<>>)
         IN  IF ~drawn.ok
             THEN Outcome(drawn.game, Err(GameError("EmptyDeck")))
             ELSE Outcome(next_turn([drawn.game EXCEPT !.pending_draws = 0]),
                          Ok(DrawTwoEvent(player_id, drawn.cards)))
    ELSE IF Len(g.deck) > 0
    THEN Outcome(next_turn([g EXCEPT !.players[player_id + 1].hand =
                                         Append(@, VecLast(g.deck))]),
                 Ok(CardDrawn(player_id, VecLast(g.deck))))
    ELSE Outcome(g, Err(GameError("EmptyDeck")))

\* UnoGame::draw_card(player_id)
draw_card(g, player_id) ==
    IF player_id >= Len(g.players)
    THEN Outcome(g, Panic)
    ELSE IF g.pending_draws > 0
    THEN LET drawn == DrawPending(g, player_id, g.pending_draws, <<>>)
         IN  IF ~drawn.ok
             THEN Outcome(drawn.game, Err(GameError("EmptyDeck")))
             ELSE Outcome(next_turn([drawn.game EXCEPT !.pending_draws = 0]),
                          Ok(DrawTwoEvent(player_id, drawn.cards)))
    ELSE IF Len(g.deck) > 0
    THEN Outcome(next_turn([g EXCEPT !.deck = VecPopped(@),
                                     !.players[player_id + 1].hand =
                                         Append(@, VecLast(g.deck))]),
                 Ok(CardDrawn(player_id, VecLast(g.deck))))
    ELSE Outcome(g, Err(GameError("EmptyDeck")))

----------------------------------------------------------------------------
(* The games and the calls explored *)

\* the rosters: the first n of these names
Names ==
    <<"Alice", "Bob", "Charlie", "David", "Eve", "Frank", "Grace", "Heidi",
      "Ivan", "Judy", "Mallory", "Niaj", "Olivia", "Peggy", "Rupert",
      "Sybil", "Trent">>

\* the largest roster the deck can deal to and still seed the discard pile
MaxDealable == (DeckSize - 1) \div HandSize

\* roster sizes: two, three and four players, and the largest, which leaves
\* a deck small enough to run out
PlayerCounts == {2, 3, 4, MaxDealable}

\* the shuffles: <<stride, offset>> pairs, each stride coprime to the deck size
Shuffles ==
    {<<1, 0>>, <<1, 103>>, <<7, 79>>, <<7, 90>>, <<25, 20>>, <<77, 38>>, <<91, 101>>}

\* the seats callers pass: the current one, another one, and one past the last
Seats(g) ==
    {g.current_turn, (g.current_turn + 1) % Len(g.players), Len(g.players)}

\* the card indexes callers pass for a seat
CardIndexes(g, player_id) ==
    IF player_id >= Len(g.players)
    THEN {0}
    ELSE LET len == Len(g.players[player_id + 1].hand)
         IN  IF len <= MaxFreeHand THEN 0..len ELSE {0, len}

Init ==
    \E n \in PlayerCounts, shuffle \in Shuffles :
        LET made == new(SubSeq(Names, 1, n), initialize_deck(shuffle[1], shuffle[2]))
        IN  /\ made.kind = "Ok"
            /\ game = made.value
            /\ before = made.value
            /\ result = [op |-> "new", ret |-> Ok("UnoGame")]
            /\ ops = 0
            /\ draws = 0
            /\ sessions = NoSessions
            /\ inflight = NoRequests

\* a call of game.play_card(player_id, card_index)
PlayCard(player_id, card_index) ==
    LET out == play_card(game, player_id, card_index)
    IN  /\ result.ret.kind # "Panic"
        /\ out.ret.kind = "Ok" => ops < MaxOps
        /\ game' = out.game
        /\ before' = game
        /\ result' = [op |-> "play_card", player_id |-> player_id,
                      card_index |-> card_index, ret |-> out.ret]
        /\ ops' = IF out.ret.kind = "Ok" THEN ops + 1 ELSE ops
        /\ UNCHANGED <<draws, server>>

\* a call of game.draw_card(player_id)
DrawCard(player_id) ==
    LET out == draw_card(game, player_id)
    IN  /\ result.ret.kind # "Panic"
        /\ out.ret.kind = "Ok" => ops < MaxOps /\ draws < MaxDraws
        /\ game' = out.game
        /\ before' = game
        /\ result' = [op |-> "draw_card", player_id |-> player_id, ret |-> out.ret]
        /\ ops' = IF out.ret.kind = "Ok" THEN ops + 1 ELSE ops
        /\ draws' = IF out.ret.kind = "Ok" THEN draws + 1 ELSE draws
        /\ UNCHANGED server

Next ==
    \/ \E player_id \in Seats(game) :
           \E card_index \in CardIndexes(game, player_id) :
               PlayCard(player_id, card_index)
    \/ \E player_id \in Seats(game) : DrawCard(player_id)

Spec == Init /\ [][Next]_vars

----------------------------------------------------------------------------
(* The turn primitives called on their own: next_turn and reverse_direction *)
(* are public, and the callers of the engine call them between plays       *)

\* every roster the deck can deal to
TurnPlayerCounts == 2..MaxDealable

InitTurn ==
    \E n \in TurnPlayerCounts :
        LET made == new(SubSeq(Names, 1, n), initialize_deck(1, 0))
        IN  /\ made.kind = "Ok"
            /\ game = made.value
            /\ before = made.value
            /\ result = [op |-> "new", ret |-> Ok("UnoGame")]
            /\ ops = 0
            /\ draws = 0
            /\ sessions = NoSessions
            /\ inflight = NoRequests

\* a call of game.next_turn(); without players the remainder is taken modulo
\* zero, which panics
NextTurn ==
    /\ result.ret.kind # "Panic"
    /\ IF Len(game.players) = 0
       THEN /\ game' = game
            /\ result' = [op |-> "next_turn", ret |-> Panic]
       ELSE /\ game' = next_turn(game)
            /\ result' = [op |-> "next_turn", ret |-> Ok("unit")]
    /\ before' = game
    /\ UNCHANGED <<ops, draws, server>>

\* a call of game.reverse_direction()
ReverseDirection ==
    /\ result.ret.kind # "Panic"
    /\ game' = reverse_direction(game)
    /\ before' = game
    /\ result' = [op |-> "reverse_direction", ret |-> Ok("unit")]
    /\ UNCHANGED <<ops, draws, server>>

NextOfTurns == NextTurn \/ ReverseDirection

SpecTurn == InitTurn /\ [][NextOfTurns]_vars

----------------------------------------------------------------------------
(* The four public operations of the engine called in any order, on the    *)
(* games UnoGame::new returns for rosters of any size                      *)

\* successful play_card and draw_card calls explored per game in the mix
MaxMixedOps == 2

\* roster sizes of the mix: new accepts them all
MixedPlayerCounts == 0..3

\* the seats callers pass; seat 0 when there is no player at all
MixedSeats(g) == IF Len(g.players) = 0 THEN {0} ELSE Seats(g)

InitMixed ==
    \E n \in MixedPlayerCounts, shuffle \in Shuffles :
        LET made == new(SubSeq(Names, 1, n), initialize_deck(shuffle[1], shuffle[2]))
        IN  /\ made.kind = "Ok"
            /\ game = made.value
            /\ before = made.value
            /\ result = [op |-> "new", ret |-> Ok("UnoGame")]
            /\ ops = 0
            /\ draws = 0
            /\ sessions = NoSessions
            /\ inflight = NoRequests

NextMixed ==
    \/ \E player_id \in MixedSeats(game) :
           \E card_index \in CardIndexes(game, player_id) :
               ops < MaxMixedOps /\ PlayCard(player_id, card_index)
    \/ \E player_id \in MixedSeats(game) :
           ops < MaxMixedOps /\ DrawCard(player_id)
    \/ ops < MaxMixedOps /\ NextTurn
    \/ ops < MaxMixedOps /\ ReverseDirection

SpecMixed == InitMixed /\ [][NextMixed]_vars

----------------------------------------------------------------------------
(* The ways a game comes to exist: UnoGame::new called directly, the HTTP   *)
(* create_game handler, and the console controller after its name prompt    *)

\* before any game exists
NoGame == [tag |-> "NoGame"]

\* an HTTP response: the status code and what the body is
Response(status, body) == [kind |-> "Response", status |-> status, body |-> body]

\* the rosters asked for: none, one, ... up to all the names
Rosters == {SubSeq(Names, 1, n) : n \in 0..Len(Names)}

\* ConsoleUI::get_player_names on the lines typed: a "." ends the prompt once
\* two names are in; before that it is refused and the prompt goes on
RECURSIVE get_player_names(_, _)
get_player_names(lines, player_names) ==
    LET name == Head(lines) IN
    IF name = "."
    THEN IF Len(player_names) < 2
         THEN get_player_names(Tail(lines), player_names)
         ELSE player_names
    ELSE get_player_names(Tail(lines), Append(player_names, name))

\* what is typed at the name prompt: `first` names and a ".", then, the "."
\* being refused when fewer than two names are in, the rest of the roster
\* and a second "."
Typed(roster, first) ==
    SubSeq(roster, 1, first) \o <<".">>
    \o SubSeq(roster, first + 1, Len(roster)) \o <<".">>

ConsoleInputs ==
    {Typed(roster, first) : roster \in {r \in Rosters : Len(r) >= 2}, first \in 0..2}

InitNew ==
    /\ game = NoGame
    /\ before = NoGame
    /\ result = [op |-> "start", ret |-> Ok("unit")]
    /\ ops = 0
    /\ draws = 0
    /\ sessions = NoSessions
    /\ inflight = NoRequests

\* a call of UnoGame::new(player_names); initialize_deck returns `deck`
New(player_names, deck) ==
    LET made == new(player_names, deck)
    IN  /\ game = NoGame
        /\ game' = IF made.kind = "Ok" THEN made.value ELSE game
        /\ before' = game
        /\ result' = [op |-> "new", player_names |-> player_names, deck |-> deck,
                      ret |-> IF made.kind = "Ok" THEN Ok("UnoGame") ELSE made]
        /\ UNCHANGED <<ops, draws, server>>

\* a POST of the create_game handler with req.player_names; the game of the
\* session it saves
CreateGame(player_names, deck) ==
    LET made == new(player_names, deck)
    IN  /\ game = NoGame
        /\ game' = IF made.kind = "Ok" THEN made.value ELSE game
        /\ before' = game
        /\ result' = [op |-> "create_game", player_names |-> player_names,
                      deck |-> deck,
                      ret |-> IF made.kind = "Ok"
                              THEN Response(201, "GameResponse")
                              ELSE Response(400, "Deck is empty")]
        /\ UNCHANGED <<ops, draws, server>>

\* GameController::new on the lines typed at the name prompt
ControllerNew(lines, deck) ==
    LET player_names == get_player_names(lines, <<>>)
        made == new(player_names, deck)
    IN  /\ game = NoGame
        /\ game' = IF made.kind = "Ok" THEN made.value ELSE game
        /\ before' = game
        /\ result' = [op |-> "GameController::new", player_names |-> player_names,
                      deck |-> deck,
                      ret |-> IF made.kind = "Ok" THEN Ok("GameController") ELSE Panic]
        /\ UNCHANGED <<ops, draws, server>>

NextNew ==
    \E shuffle \in Shuffles :
        LET deck == initialize_deck(shuffle[1], shuffle[2])
        IN  \/ \E player_names \in Rosters : New(player_names, deck)
            \/ \E player_names \in Rosters : CreateGame(player_names, deck)
            \/ \E lines \in ConsoleInputs : ControllerNew(lines, deck)

SpecNew == InitNew /\ [][NextNew]_vars

----------------------------------------------------------------------------
(* api.rs: the HTTP handlers that change a game.  Each loads the session,  *)
(* works on the loaded game and saves it only when it answers 200; `game`  *)
(* is the game of the saved session.                                       *)

\* successful requests explored per session
MaxHttpOps == 3

\* the color strings requests carry, and str::to_lowercase of each
ToLowercase ==
    [str \in {"red", "Green", "BLUE", "yellow", "Wild"} |->
        CASE str = "red" -> "red"
          [] str = "Green" -> "green"
          [] str = "BLUE" -> "blue"
          [] str = "yellow" -> "yellow"
          [] str = "Wild" -> "wild"]

RequestColors == DOMAIN ToLowercase

\* the match on color_str.to_lowercase() of play_card and choose_color
ParseColor(color_str) ==
    LET lower == ToLowercase[color_str] IN
    CASE lower = "red" -> Ok("Red")
      [] lower = "green" -> Ok("Green")
      [] lower = "blue" -> Ok("Blue")
      [] lower = "yellow" -> Ok("Yellow")
      [] OTHER -> Err("Invalid color")

\* the tail of the play handler: the engine's play_card on the loaded game,
\* then next_turn and the save
http_play_loaded(g, loaded, card_index) ==
    LET out == play_card(loaded, loaded.current_turn, card_index) IN
    CASE out.ret.kind = "Ok" ->
             Outcome(next_turn(out.game), Response(200, out.ret.value))
      [] out.ret.kind = "Err" -> Outcome(g, Response(400, out.ret.error.msg))
      [] OTHER -> Outcome(g, Panic)

\* mutant of http_play_card: the chosen color is set on a clone of the hand's
\* card, so the card played keeps the color Wild
http_play_card_colors_clone(g, card_index, color) ==
    IF g.current_turn >= Len(g.players)
    THEN Outcome(g, Panic)
    ELSE
    LET hand == g.players[g.current_turn + 1].hand
        requires_color ==
            /\ card_index < Len(hand)
            /\ hand[card_index + 1].card_type.tag \in {"Wild", "WildDrawFour"}
    IN  IF ~requires_color
        THEN http_play_loaded(g, g, card_index)
        ELSE IF color = None
        THEN Outcome(g, Response(400, "Color required for Wild card"))
        ELSE IF ParseColor(color).kind = "Err"
        THEN Outcome(g, Response(400, "Invalid color"))
        ELSE http_play_loaded(g, g, card_index)

\* the play_card handler: POST with req.card_index and req.color
http_play_card(g, card_index, color) ==
    IF g.current_turn >= Len(g.players)
    THEN Outcome(g, Panic)
    ELSE
    LET hand == g.players[g.current_turn + 1].hand
        requires_color ==
            /\ card_index < Len(hand)
            /\ hand[card_index + 1].card_type.tag \in {"Wild", "WildDrawFour"}
    IN  IF ~requires_color
        THEN http_play_loaded(g, g, card_index)
        ELSE IF color = None
        THEN Outcome(g, Response(400, "Color required for Wild card"))
        ELSE IF ParseColor(color).kind = "Err"
        THEN Outcome(g, Response(400, "Invalid color"))
        ELSE http_play_loaded(
                 g,
                 [g EXCEPT !.players[g.current_turn + 1].hand[card_index + 1].color =
                               ParseColor(color).value],
                 card_index)

\* the draw_card handler: the engine's draw_card for the current seat, then
\* next_turn and the save; a failed draw saves nothing
http_draw_card(g) ==
    LET out == draw_card(g, g.current_turn) IN
    CASE out.ret.kind = "Ok" ->
             Outcome(next_turn(out.game), Response(200, out.ret.value))
      [] out.ret.kind = "Err" -> Outcome(g, Response(400, "Deck is empty"))
      [] OTHER -> Outcome(g, Panic)

\* the choose_color handler: the color of the discard pile's top card is
\* overwritten, whatever card that is
http_choose_color(g, color) ==
    IF ParseColor(color).kind = "Err"
    THEN Outcome(g, Response(400, "Invalid color"))
    ELSE IF Len(g.discard_pile) = 0
    THEN Outcome(g, Response(400, "No card in discard pile"))
    ELSE Outcome([g EXCEPT !.discard_pile[Len(g.discard_pile)][1].color =
                               ParseColor(color).value],
                 Response(200, "unit"))

\* roster sizes of the sessions: create_game accepts them all
HttpPlayerCounts == {0, 2, 3}

\* the card indexes requests carry: the first card and one past the hand
HttpCardIndexes(g) ==
    IF g.current_turn >= Len(g.players)
    THEN {0}
    ELSE {0, Len(g.players[g.current_turn + 1].hand)}

\* the session create_game saved
InitHttp ==
    \E n \in HttpPlayerCounts, shuffle \in Shuffles :
        LET made == new(SubSeq(Names, 1, n), initialize_deck(shuffle[1], shuffle[2]))
        IN  /\ made.kind = "Ok"
            /\ game = made.value
            /\ before = made.value
            /\ result = [op |-> "create_game", ret |-> Response(201, "GameResponse")]
            /\ ops = 0
            /\ draws = 0
            /\ sessions = NoSessions
            /\ inflight = NoRequests

\* a request answered: the saved game, the request and the response
HttpAnswered(out, request) ==
    /\ out.ret.kind = "Response" /\ out.ret.status = 200 => ops < MaxHttpOps
    /\ game' = out.game
    /\ before' = game
    /\ result' = [request EXCEPT !.ret = out.ret]
    /\ ops' = IF out.ret.kind = "Response" /\ out.ret.status = 200
              THEN ops + 1 ELSE ops
    /\ UNCHANGED <<draws, server>>

HttpPlayCard(card_index, color) ==
    HttpAnswered(http_play_card(game, card_index, color),
                 [op |-> "http_play_card", card_index |-> card_index,
                  color |-> color, ret |-> None])

HttpDrawCard ==
    HttpAnswered(http_draw_card(game), [op |-> "http_draw_card", ret |-> None])

HttpChooseColor(color) ==
    HttpAnswered(http_choose_color(game, color),
                 [op |-> "http_choose_color", color |-> color, ret |-> None])

NextHttp ==
    \/ \E card_index \in HttpCardIndexes(game), color \in RequestColors \cup {None} :
           HttpPlayCard(card_index, color)
    \/ HttpDrawCard
    \/ \E color \in RequestColors : HttpChooseColor(color)

SpecHttp == InitHttp /\ [][NextHttp]_vars

----------------------------------------------------------------------------
(* session.rs: GameSession and SessionManager over the files of             *)
(* sessions_dir, and the get_game and delete_game handlers of api.rs.  The *)
(* file <id>.json is kept under its id; `now` is the clock's reading.      *)

\* calls explored per store that write or remove a file
MaxStoreOps == 3

\* serde_json::to_string_pretty of a session, and serde_json::from_str of a
\* file's text; a truncated file does not parse
ToJson(session) == [json |-> "GameSession", fields |-> session]
Truncated == [json |-> "", fields |-> {}]
FromJson(text) == IF text.json = "GameSession" THEN Ok(text.fields) ELSE Err("invalid data")

\* GameSession::new(id, game)
NewGameSession(id, g, now) == [id |-> id, game |-> g, last_updated |-> now]

\* GameSession::save: the file named after the session's id is (over)written
save(dir, session) ==
    [id \in DOMAIN dir \cup {session.id} |->
        IF id = session.id THEN ToJson(session) ELSE dir[id]]

\* GameSession::load: the file is read and parsed, last_updated is set to now
load(dir, id, now) ==
    IF id \notin DOMAIN dir
    THEN Err("No such file or directory")
    ELSE LET parsed == FromJson(dir[id])
         IN  IF parsed.kind = "Err"
             THEN parsed
             ELSE Ok([parsed.value EXCEPT !.last_updated = now])

\* what a SessionManager call leaves in sessions_dir, and what it returns
Stored(dir, ret) == [dir |-> dir, ret |-> ret]

\* SessionManager::create_session(game); Uuid::new_v4 yields `id`
create_session(dir, id, g, now) ==
    LET session == NewGameSession(id, g, now)
    IN  Stored(save(dir, session), Ok(session))

\* SessionManager::load_session(id)
load_session(dir, id, now) == load(dir, id, now)

\* SessionManager::list_sessions: the names of the .json files, without the
\* suffix, in no particular order
list_sessions(dir) == Ok(DOMAIN dir)

\* mutant of delete_session: the file is emptied, not removed
delete_session_truncates(dir, id) ==
    IF id \in DOMAIN dir
    THEN Stored([dir EXCEPT ![id] = Truncated], Ok("unit"))
    ELSE Stored(dir, Err("No such file or directory"))

\* SessionManager::delete_session(id)
delete_session(dir, id) ==
    IF id \in DOMAIN dir
    THEN Stored([i \in DOMAIN dir \ {id} |-> dir[i]], Ok("unit"))
    ELSE Stored(dir, Err("No such file or directory"))

\* the get_game handler: GET /games/:id
get_game(dir, id, now) ==
    LET loaded == load_session(dir, id, now)
    IN  IF loaded.kind = "Ok"
        THEN Response(200, [id |-> loaded.value.id])
        ELSE Response(404, loaded.error)

\* the delete_game handler: DELETE /games/:id
delete_game(dir, id) ==
    LET deleted == delete_session(dir, id)
    IN  IF deleted.ret.kind = "Ok"
        THEN Stored(deleted.dir, Response(204, "empty"))
        ELSE Stored(dir, Response(404, deleted.ret.error))

\* the ids Uuid::new_v4 yields, and the ids callers ask for: those and one
\* that is no session's
Uuids == {"uuid-a", "uuid-b", "uuid-c"}
RequestIds == Uuids \cup {"invalid-id"}

\* the games handed to create_session
StoreGames ==
    {new(SubSeq(Names, 1, n), initialize_deck(1, 0)).value : n \in {2, 3}}

\* no call made so far; with each call are kept the ids create_session has
\* returned, with the game given for each, and the ids deleted
NoHistory == [op |-> "SessionManager::new", id |-> None, ret |-> Ok("SessionManager"),
              created |-> NoSessions, deleted |-> {}]

\* a SessionManager on a new, empty directory
InitStore ==
    /\ game = NoGame
    /\ before = NoGame
    /\ result = NoHistory
    /\ ops = 0
    /\ draws = 0
    /\ sessions = NoSessions
    /\ inflight = NoRequests

\* a call answered: what it left in the directory, the call and its return,
\* and the ids created and deleted so far
StoreAnswered(out, call, written) ==
    /\ written => ops < MaxStoreOps
    /\ sessions' = out.dir
    /\ result' = [call EXCEPT !.ret = out.ret]
    /\ ops' = IF written THEN ops + 1 ELSE ops
    /\ UNCHANGED <<game, before, draws, inflight>>

\* a call of create_session(game); the new uuid is none of those made before
CreateSession(id, g) ==
    /\ id \notin DOMAIN result.created
    /\ StoreAnswered(create_session(sessions, id, g, ops),
                     [result EXCEPT !.op = "create_session", !.id = id,
                                    !.created = [i \in DOMAIN @ \cup {id} |->
                                                    IF i = id THEN g ELSE @[i]]],
                     TRUE)

\* a call of delete_session(id)
DeleteSession(id) ==
    LET out == delete_session(sessions, id)
    IN  StoreAnswered(out,
                      [result EXCEPT !.op = "delete_session", !.id = id,
                                     !.deleted = IF out.ret.kind = "Ok"
                                                 THEN @ \cup {id} ELSE @],
                      out.ret.kind = "Ok")

\* a DELETE /games/:id request
DeleteGame(id) ==
    LET out == delete_game(sessions, id)
    IN  StoreAnswered(out,
                      [result EXCEPT !.op = "delete_game", !.id = id,
                                     !.deleted = IF out.ret.status = 204
                                                 THEN @ \cup {id} ELSE @],
                      out.ret.status = 204)

\* a call of load_session(id)
LoadSession(id) ==
    StoreAnswered(Stored(sessions, load_session(sessions, id, ops)),
                  [result EXCEPT !.op = "load_session", !.id = id], FALSE)

\* a call of list_sessions()
ListSessions ==
    StoreAnswered(Stored(sessions, list_sessions(sessions)),
                  [result EXCEPT !.op = "list_sessions", !.id = None], FALSE)

\* a GET /games/:id request
GetGame(id) ==
    StoreAnswered(Stored(sessions, get_game(sessions, id, ops)),
                  [result EXCEPT !.op = "get_game", !.id = id], FALSE)

NextStore ==
    \/ \E id \in Uuids, g \in StoreGames : CreateSession(id, g)
    \/ \E id \in RequestIds : DeleteSession(id)
    \/ \E id \in RequestIds : DeleteGame(id)
    \/ \E id \in RequestIds : LoadSession(id)
    \/ ListSessions
    \/ \E id \in RequestIds : GetGame(id)

SpecStore == InitStore /\ [][NextStore]_vars

----------------------------------------------------------------------------
(* api.rs: the play_card, draw_card and choose_color handlers of one        *)
(* session when requests are served at the same time.  A handler loads the *)
(* session file, works on its own copy and saves the copy before it        *)
(* answers; nothing in api.rs or session.rs orders the loads and saves of  *)
(* two handlers, so each handler is two actions: its load and, from the    *)
(* session it loaded, its save and answer.                                 *)

\* requests explored per session
MaxRequests == 2

\* the session the requests are for
RaceId == "uuid-a"

\* the requests sent
RaceRequests ==
    {[handler |-> "play_card", card_index |-> 0, color |-> "Green"],
     [handler |-> "draw_card", card_index |-> None, color |-> None],
     [handler |-> "choose_color", card_index |-> None, color |-> "BLUE"]}

\* the handler of a request, on the game of the session it loaded
handle(g, request) ==
    CASE request.handler = "play_card" ->
             http_play_card(g, request.card_index, request.color)
      [] request.handler = "draw_card" -> http_draw_card(g)
      [] OTHER -> http_choose_color(g, request.color)

\* roster sizes of the session
RacePlayerCounts == {2, 3}

\* the session create_game saved, and no request received yet
InitRace ==
    \E n \in RacePlayerCounts, shuffle \in Shuffles :
        LET made == new(SubSeq(Names, 1, n), initialize_deck(shuffle[1], shuffle[2]))
        IN  /\ made.kind = "Ok"
            /\ game = made.value
            /\ before = made.value
            /\ result = [op |-> "create_game", ret |-> Response(201, "GameResponse"),
                         answered |-> <<>>]
            /\ ops = 0
            /\ draws = 0
            /\ sessions = create_session(NoSessions, RaceId, made.value, 0).dir
            /\ inflight = NoRequests

\* a handler starts on a request: load_session
HttpLoad(request) ==
    LET r == ops + 1
        loaded == load_session(sessions, RaceId, r)
    IN  /\ ops < MaxRequests
        /\ loaded.kind = "Ok"
        /\ inflight' = [i \in DOMAIN inflight \cup {r} |->
                           IF i = r
                           THEN [request |-> request, session |-> loaded.value]
                           ELSE inflight[i]]
        /\ ops' = r
        /\ UNCHANGED <<game, before, result, draws, sessions>>

\* a handler that loaded its session goes on to the end: the engine call on
\* the copy it loaded, session.save when the call succeeded, and the answer
HttpSave(r) ==
    LET request == inflight[r].request
        session == inflight[r].session
        out == handle(session.game, request)
    IN  /\ sessions' = IF out.ret.status = 200
                       THEN save(sessions, [session EXCEPT !.game = out.game])
                       ELSE sessions
        /\ inflight' = [i \in DOMAIN inflight \ {r} |-> inflight[i]]
        /\ result' = [op |-> "http_answered", request |-> request, ret |-> out.ret,
                      answered |-> Append(result.answered, request)]
        /\ UNCHANGED <<game, before, ops, draws>>

NextRace ==
    \/ \E request \in RaceRequests : HttpLoad(request)
    \/ \E r \in DOMAIN inflight : HttpSave(r)

SpecRace == InitRace /\ [][NextRace]_vars

----------------------------------------------------------------------------
(* The console controller: GameController::run, one action per iteration   *)
(* of its loop                                                              *)

\* iterations explored per game that end at the loop's last line or return
MaxConsoleTurns == 3

\* the lines typed at the card prompt, and str::parse::<usize> of each
ParseIndex ==
    [line \in {"0", "1", "99", "-1", "x"} |->
        CASE line = "0" -> Ok(0)
          [] line = "1" -> Ok(1)
          [] line = "99" -> Ok(99)
          [] OTHER -> Err("Invalid input. Please enter a number.")]

IndexLines == DOMAIN ParseIndex

\* the lines typed at the action prompt
ChoiceLines == {"1", "2", "3"}

\* one iteration of the loop of run: the game after it and how it ended:
\* "return" (the game was won), "continue" (the turn is repeated) or
\* "next_turn" (the iteration reached the loop's last line)
controller_turn(g, choice, line) ==
    CASE choice = "1" ->
             IF ParseIndex[line].kind = "Err"
             THEN Outcome(g, Ok("continue"))
             ELSE LET out == play_card(g, g.current_turn, ParseIndex[line].value) IN
                  CASE out.ret.kind = "Err" -> Outcome(g, Ok("continue"))
                    [] out.ret.kind = "Panic" -> Outcome(g, Panic)
                    [] out.ret.value.tag = "PlayerWins" -> Outcome(out.game, Ok("return"))
                    [] OTHER -> Outcome(next_turn(out.game), Ok("next_turn"))
      [] choice = "2" ->
             LET out == draw_card(g, g.current_turn) IN
             IF out.ret.kind = "Panic"
             THEN Outcome(g, Panic)
             ELSE Outcome(next_turn(out.game), Ok("next_turn"))
      [] OTHER -> Outcome(next_turn(g), Ok("next_turn"))

\* roster sizes of the console games: the name prompt takes two names or more
ConsolePlayerCounts == {2, 3}

\* the controller GameController::new built
InitConsole ==
    \E n \in ConsolePlayerCounts, shuffle \in Shuffles :
        LET made == new(SubSeq(Names, 1, n), initialize_deck(shuffle[1], shuffle[2]))
        IN  /\ made.kind = "Ok"
            /\ game = made.value
            /\ before = made.value
            /\ result = [op |-> "GameController::new", ret |-> Ok("GameController")]
            /\ ops = 0
            /\ draws = 0
            /\ sessions = NoSessions
            /\ inflight = NoRequests

\* one iteration of the loop with these two lines typed; the second is read
\* only when the first is "1"
ControllerTurn(choice, line) ==
    LET out == controller_turn(game, choice, line)
    IN  /\ result.ret \notin {Panic, Ok("return")}
        /\ out.ret # Ok("continue") => ops < MaxConsoleTurns
        /\ game' = out.game
        /\ before' = game
        /\ result' = [op |-> "controller_turn", choice |-> choice,
                      line |-> IF choice = "1" THEN line ELSE None, ret |-> out.ret]
        /\ ops' = IF out.ret # Ok("continue") THEN ops + 1 ELSE ops
        /\ UNCHANGED <<draws, server>>

NextConsole == \E choice \in ChoiceLines, line \in IndexLines : ControllerTurn(choice, line)

SpecConsole == InitConsole /\ [][NextConsole]_vars

----------------------------------------------------------------------------
(* The legality check called on its own: can_play_card is an associated    *)
(* function that takes any two cards                                       *)

CardTypes ==
    {Number(n) : n \in 0..9} \cup {Skip, Reverse, DrawTwo, Wild, WildDrawFour}

\* every card a caller can build: Card::new takes any color with any type
Cards ==
    {NewCard(color, card_type) :
        color \in {"Red", "Green", "Blue", "Yellow", "Wild"}, card_type \in CardTypes}

\* a call of UnoGame::can_play_card(&card, &top_card); the function reads
\* nothing but its arguments, so one call per behaviour is explored
CanPlayCard(card, top_card) ==
    /\ result.op = "start"
    /\ result' = [op |-> "can_play_card", card |-> card, top_card |-> top_card,
                  ret |-> Ok(can_play_card(card, top_card))]
    /\ before' = game
    /\ UNCHANGED <<game, ops, draws, server>>

NextLegal == \E card \in Cards, top_card \in Cards : CanPlayCard(card, top_card)

SpecLegal == InitNew /\ [][NextLegal]_vars

----------------------------------------------------------------------------
(* Vocabulary of the properties *)

RECURSIVE HandTotal(_, _)
\* the sum of the hand lengths of players[1..k]
HandTotal(players, k) ==
    IF k = 0 THEN 0 ELSE Len(players[k].hand) + HandTotal(players, k - 1)

CardTotal(g) ==
    Len(g.deck) + Len(g.discard_pile) + HandTotal(g.players, Len(g.players))

NumPlayers == Len(game.players)

Hand(g, player_id) == g.players[player_id + 1].hand

TopCard(g) == VecLast(g.discard_pile)[1]

\* the last call was play_card / draw_card
PlayCalled == result.op = "play_card"
DrawCalled == result.op = "draw_card"

\* the last call was play_card by the player whose turn it was, in a game in
\* progress, with an index inside that player's hand
ValidPlayCalled ==
    /\ PlayCalled
    /\ before.status = InProgress
    /\ result.player_id = before.current_turn
    /\ result.card_index < Len(Hand(before, before.current_turn))

\* the card that call named
NamedCard == Hand(before, result.player_id)[result.card_index + 1]

\* the last call returned Ok(CardPlayed) of a card of this type
Played(tag) ==
    /\ PlayCalled
    /\ result.ret.kind = "Ok"
    /\ result.ret.value.tag = "CardPlayed"
    /\ result.ret.value.card.card_type.tag = tag

\* the last call returned Ok(PlayerWins)
Won ==
    /\ PlayCalled
    /\ result.ret.kind = "Ok"
    /\ result.ret.value.tag = "PlayerWins"

\* the seat one step from seat t in direction d among N players
StepFrom(t, d, N) == IF d = Clockwise THEN (t + 1) % N ELSE (t + N - 1) % N

\* the last call was a successful play, by the player whose turn it was, of
\* a card of this type that was not the last of the hand
PlayedNonWinning(tag) ==
    /\ ValidPlayCalled
    /\ result.ret.kind = "Ok"
    /\ NamedCard.card_type.tag = tag
    /\ Len(Hand(before, before.current_turn)) > 1

\* the k top cards of a deck, in the order Vec::pop hands them out
TopCards(deck, k) == [j \in 1..k |-> deck[Len(deck) - j + 1]]

\* the game after k consecutive next_turn calls
RECURSIVE next_turns(_, _)
next_turns(g, k) == IF k = 0 THEN g ELSE next_turns(next_turn(g), k - 1)

\* the last call created a game, by one of the three ways
Created ==
    /\ result.op \in {"new", "create_game", "GameController::new"}
    /\ game # NoGame

\* how many times a card occurs in a sequence of cards
Count(cards, card) == Cardinality({i \in 1..Len(cards) : cards[i] = card})

\* how many times a card occurs in the hands of players[1..k]
RECURSIVE CountInHands(_, _, _)
CountInHands(players, k, card) ==
    IF k = 0 THEN 0
    ELSE Count(players[k].hand, card) + CountInHands(players, k - 1, card)

\* how many times a card occurs in a game: deck, hands and discard pile
CountInGame(g, card) ==
    Count(g.deck, card)
    + CountInHands(g.players, Len(g.players), card)
    + Count([i \in 1..Len(g.discard_pile) |-> g.discard_pile[i][1]], card)

\* the cards of kind Number, Skip, Reverse or DrawTwo, in any color
NonWildCards == {card \in Cards : card.card_type.tag \notin {"Wild", "WildDrawFour"}}

InvalidMove == Err(GameError("InvalidMove"))
CardNotInHand == Err(GameError("CardNotInHand"))

----------------------------------------------------------------------------
(* main.rs: the console binary, which plays by its own play_card,          *)
(* can_play_card, handle_special_card and draw_card on the fields of an    *)
(* UnoGame; one action per iteration of main's loop.  Of the engine it     *)
(* calls new, next_turn and reverse_direction only, and it never sets      *)
(* status or pending_draws.  A discard pile entry carries the card and the *)
(* seat that played it, as in game.rs.                                     *)

\* successful plays and draws explored per game (a hand is played out in 7)
MaxMainOps == 7

\* successful draws explored per game
MaxMainDraws == 1

\* main.rs's can_play_card: the same color, or a Number on the same Number,
\* or any card that is not a Number
main_can_play_card(card, top_card) ==
    \/ card.color = top_card.color
    \/ IF card.card_type.tag = "Number"
       THEN top_card.card_type.tag = "Number" /\ card.card_type.n = top_card.card_type.n
       ELSE TRUE

\* main.rs's choose_color on the lines typed: the prompt is repeated until
\* one of "1" to "4" is typed
RECURSIVE choose_color(_)
choose_color(lines) ==
    CASE Head(lines) = "1" -> "Red"
      [] Head(lines) = "2" -> "Green"
      [] Head(lines) = "3" -> "Blue"
      [] Head(lines) = "4" -> "Yellow"
      [] OTHER -> choose_color(Tail(lines))

\* what is typed at the color prompt
ColorLines == {<<"2">>, <<"5", "4">>}

\* main.rs's handle_special_card, called once the card lies on the pile
handle_special_card(g, card, color_lines) ==
    CASE card.card_type.tag = "Skip" -> next_turn(g)
      [] card.card_type.tag = "Reverse" -> reverse_direction(g)
      [] card.card_type.tag = "DrawTwo" ->
             LET next_player == (g.current_turn + 1) % Len(g.players)
                 k == IF Len(g.deck) < 2 THEN Len(g.deck) ELSE 2
             IN  [g EXCEPT !.deck = SubSeq(@, 1, Len(@) - k),
                           !.players[next_player + 1].hand = @ \o TopCards(g.deck, k)]
      [] card.card_type.tag \in {"Wild", "WildDrawFour"} ->
             [g EXCEPT !.discard_pile[Len(g.discard_pile)][1].color =
                           choose_color(color_lines)]
      [] OTHER -> g

\* main.rs's play_card(game, index) for the player whose turn it is
main_play_card(g, index, color_lines) ==
    LET player == g.players[g.current_turn + 1] IN
    IF index >= Len(player.hand)
    THEN Outcome(g, Err(GameError("CardNotInHand")))
    ELSE
    LET card == player.hand[index + 1] IN
    IF ~main_can_play_card(card, VecLast(g.discard_pile)[1])
    THEN Outcome(g, Err(GameError("InvalidMove")))
    ELSE Outcome(handle_special_card(
                     [g EXCEPT !.players[g.current_turn + 1].hand = VecRemove(@, index),
                               !.discard_pile = Append(@, <<card, g.current_turn>>)],
                     card, color_lines),
                 Ok("unit"))

\* main.rs's draw_card(game) for the player whose turn it is
main_draw_card(g) ==
    IF Len(g.deck) > 0
    THEN Outcome([g EXCEPT !.deck = VecPopped(@),
                           !.players[g.current_turn + 1].hand =
                               Append(@, VecLast(g.deck))],
                 Ok("unit"))
    ELSE Outcome(g, Err(GameError("EmptyDeck")))

\* how an iteration of main's loop ended ("break", "continue", or "next_turn"
\* for the loop's last line) and what its play_card or draw_card returned
Looped(flow, call) == [kind |-> "Loop", flow |-> flow, call |-> call]

\* the iteration called neither play_card nor draw_card
NoCall == [kind |-> "NoCall"]

\* one iteration of main's loop on the two lines typed at the action and the
\* card prompt and the lines typed at the color prompt
main_turn(g, choice, line, color_lines) ==
    CASE choice = "1" ->
             IF ParseIndex[line].kind = "Err"
             THEN Outcome(g, Looped("continue", NoCall))
             ELSE LET out == main_play_card(g, ParseIndex[line].value, color_lines) IN
                  IF out.ret.kind = "Err"
                  THEN Outcome(next_turn(g), Looped("next_turn", out.ret))
                  ELSE IF Len(Hand(out.game, out.game.current_turn)) = 0
                  THEN Outcome(out.game, Looped("break", out.ret))
                  ELSE Outcome(next_turn(out.game), Looped("next_turn", out.ret))
      [] choice = "2" ->
             LET out == main_draw_card(g)
             IN  Outcome(next_turn(out.game), Looped("next_turn", out.ret))
      [] OTHER -> Outcome(next_turn(g), Looped("next_turn", NoCall))

\* roster sizes of the console games: "done" is refused before two names
MainPlayerCounts == {2, 3}

\* the shuffles of the console games, by roster size: <<stride, offset>> pairs
MainShuffles(n) ==
    IF n = 2 THEN {<<107, 6>>, <<5, 54>>} ELSE {<<107, 22>>, <<37, 67>>}

\* the lines typed at the card prompt
MainIndexLines == {"0", "99", "x"}

\* the game main built from the names typed
InitMain ==
    \E n \in MainPlayerCounts : \E shuffle \in MainShuffles(n) :
        LET made == new(SubSeq(Names, 1, n), initialize_deck(shuffle[1], shuffle[2]))
        IN  /\ made.kind = "Ok"
            /\ game = made.value
            /\ before = made.value
            /\ result = [op |-> "main", ret |-> Ok("UnoGame")]
            /\ ops = 0
            /\ draws = 0
            /\ sessions = NoSessions
            /\ inflight = NoRequests

\* one iteration of main's loop
MainTurn(choice, line, color_lines) ==
    LET out == main_turn(game, choice, line, color_lines)
        played == choice = "1" /\ out.ret.call.kind = "Ok"
        drew == choice = "2" /\ out.ret.call.kind = "Ok"
        wild == /\ choice = "1"
                /\ ParseIndex[line].kind = "Ok"
                /\ ParseIndex[line].value < Len(Hand(game, game.current_turn))
                /\ Hand(game, game.current_turn)[ParseIndex[line].value + 1].card_type.tag
                       \in {"Wild", "WildDrawFour"}
    IN  /\ ~(result.ret.kind = "Loop" /\ result.ret.flow = "break")
        /\ (played \/ drew) => ops < MaxMainOps
        /\ drew => draws < MaxMainDraws
        /\ wild \/ color_lines = <<"2">>
        /\ game' = out.game
        /\ before' = game
        /\ result' = [op |-> "main_turn", choice |-> choice,
                      line |-> IF choice = "1" THEN line ELSE None,
                      color_lines |-> IF wild THEN color_lines ELSE None,
                      ret |-> out.ret]
        /\ ops' = IF played \/ drew THEN ops + 1 ELSE ops
        /\ draws' = IF drew THEN draws + 1 ELSE draws
        /\ UNCHANGED server

NextMain ==
    \E choice \in ChoiceLines, line \in MainIndexLines, color_lines \in ColorLines :
        MainTurn(choice, line, color_lines)

SpecMain == InitMain /\ [][NextMain]_vars

----------------------------------------------------------------------------
(* C1 *)

\* C1: in every reachable state, whatever calls succeeded or failed (also a
\* draw_card that failed partway), deck + discard pile + all hands hold 108
\* cards.
C1_Conservation == CardTotal(game) = 108

\* a pending draw has just failed partway: it took cards and ran out
C1_Witness ==
    /\ DrawCalled
    /\ result.ret = Err(GameError("EmptyDeck"))
    /\ before.pending_draws > Len(before.deck)
    /\ Len(before.deck) > 0
    /\ Len(game.deck) = 0

----------------------------------------------------------------------------
(* C2 *)

\* C2: in a game in progress, play_card by the current player with a valid
\* index of a card that is not playable on the discard top fails with
\* InvalidMove and leaves hand, discard pile and current_turn as they were.
C2_IllegalPlayRejected ==
    (ValidPlayCalled /\ ~can_play_card(NamedCard, TopCard(before)))
    => /\ result.ret = InvalidMove
       /\ game.players = before.players
       /\ game.discard_pile = before.discard_pile
       /\ game.current_turn = before.current_turn

----------------------------------------------------------------------------
(* C3 *)

\* C3: while pending_draws > 0, play_card by the player at current_turn fails
\* with InvalidMove, whatever the index, and changes nothing.
C3_PendingBlocksPlay ==
    (/\ PlayCalled
     /\ before.status = InProgress
     /\ before.pending_draws > 0
     /\ result.player_id = before.current_turn)
    => /\ result.ret = InvalidMove
       /\ game = before

----------------------------------------------------------------------------
(* C4 *)

\* C4: a successful play of the only card left in the current player's hand,
\* whatever its kind, makes status Complete with that player as winner,
\* returns PlayerWins for that player, and leaves current_turn, direction and
\* pending_draws as they were.
C4_WinShortCircuits ==
    (/\ ValidPlayCalled
     /\ Len(Hand(before, before.current_turn)) = 1
     /\ result.ret.kind = "Ok")
    => /\ game.status = Complete(result.player_id)
       /\ result.ret = Ok(PlayerWins(result.player_id))
       /\ game.current_turn = before.current_turn
       /\ game.direction = before.direction
       /\ game.pending_draws = before.pending_draws

\* a player has just won on a Skip card
C4_Witness ==
    /\ Won
    /\ Len(Hand(before, before.current_turn)) = 1
    /\ NamedCard.card_type = Skip
    /\ game.status = Complete(before.current_turn)

----------------------------------------------------------------------------
(* C5 *)

\* C5: once status is Complete, no call changes any hand, the deck or the
\* discard pile, and status stays Complete with the same winner.
C5_CompletionFinal ==
    before.status.tag = "Complete"
    => /\ game.players = before.players
       /\ game.deck = before.deck
       /\ game.discard_pile = before.discard_pile
       /\ game.status = before.status

----------------------------------------------------------------------------
(* C6 *)

\* C6: in every reachable state, a Complete status names a winner whose hand
\* is empty.
C6_WinnerHandEmpty ==
    game.status.tag = "Complete" => Len(Hand(game, game.status.winner_id)) = 0

----------------------------------------------------------------------------
(* C7 *)

\* C7: on a Complete game play_card fails with the game-already-over error
\* for every player_id and card_index, and the state is unchanged.
C7_PlayAfterComplete ==
    (PlayCalled /\ before.status.tag = "Complete")
    => /\ result.ret = Err(ErrString("Game is already over"))
       /\ game = before

\* the call was refused as over although it also came from the wrong seat
\* with an index outside that seat's hand
C7_Witness ==
    /\ PlayCalled
    /\ before.status.tag = "Complete"
    /\ result.player_id # before.current_turn
    /\ result.player_id < NumPlayers
    /\ result.card_index >= Len(Hand(before, result.player_id))
    /\ result.ret = Err(ErrString("Game is already over"))

----------------------------------------------------------------------------
(* C8 *)

\* C8: in a game in progress, play_card with player_id # current_turn fails
\* with the not-your-turn error for every index and every player_id (a seat
\* that does not exist included), without a panic and without changing the
\* game.
C8_NotYourTurn ==
    (/\ PlayCalled
     /\ before.status = InProgress
     /\ result.player_id # before.current_turn)
    => /\ result.ret = Err(ErrString("Not your turn"))
       /\ game = before

\* the refused call named a seat that does not exist
C8_Witness ==
    /\ PlayCalled
    /\ before.status = InProgress
    /\ result.player_id = NumPlayers
    /\ result.ret = Err(ErrString("Not your turn"))

----------------------------------------------------------------------------
(* C9 *)

\* C9: in a game in progress, play_card by the current player with
\* card_index >= the hand's length fails with CardNotInHand, without a panic,
\* and leaves the game unchanged.
C9_CardNotInHand ==
    (/\ PlayCalled
     /\ before.status = InProgress
     /\ result.player_id = before.current_turn
     /\ result.card_index >= Len(Hand(before, before.current_turn)))
    => /\ result.ret = CardNotInHand
       /\ game = before

----------------------------------------------------------------------------
(* C10 *)

\* C10: a successful non-winning play of a Skip by seat t among N players
\* moves current_turn two steps in the current direction, past exactly one
\* player, and leaves direction and pending_draws as they were; with 3
\* players from seat 0 Clockwise the turn is seat 2, with 2 players it is
\* back at t.
C10_Skip ==
    (ValidPlayCalled /\ Played("Skip"))
    => LET t == before.current_turn
           N == NumPlayers
           one == IF before.direction = Clockwise
                  THEN (t + 1) % N ELSE (t + N - 1) % N
       IN  /\ game.current_turn =
                  IF before.direction = Clockwise
                  THEN (t + 2) % N ELSE (t + N - 2) % N
           /\ game.current_turn =
                  IF before.direction = Clockwise
                  THEN (one + 1) % N ELSE (one + N - 1) % N
           /\ N > 2 => game.current_turn \notin {t, one}
           /\ N = 2 => game.current_turn = t
           /\ (N = 3 /\ t = 0 /\ before.direction = Clockwise)
                  => game.current_turn = 2
           /\ game.direction = before.direction
           /\ game.pending_draws = before.pending_draws

\* a Skip has just been played counter-clockwise among four players, by a
\* player who owed draws
C10_Witness ==
    /\ Played("Skip")
    /\ before.direction = CounterClockwise
    /\ NumPlayers = 4
    /\ before.pending_draws > 0

----------------------------------------------------------------------------
(* C11 *)

\* C11: a successful non-winning play of a Reverse by seat t among N players
\* toggles direction and then moves current_turn one step in the new
\* direction: from Clockwise to seat (t+N-1) mod N, from CounterClockwise to
\* seat (t+1) mod N; with 3 players, seat 1, Clockwise the result is
\* CounterClockwise and seat 0.
C11_Reverse ==
    (ValidPlayCalled /\ Played("Reverse"))
    => LET t == before.current_turn
           N == NumPlayers
       IN  /\ before.direction = Clockwise
                  => /\ game.direction = CounterClockwise
                     /\ game.current_turn = (t + N - 1) % N
           /\ before.direction = CounterClockwise
                  => /\ game.direction = Clockwise
                     /\ game.current_turn = (t + 1) % N
           /\ (N = 3 /\ t = 1 /\ before.direction = Clockwise)
                  => game.direction = CounterClockwise /\ game.current_turn = 0

\* seat 1 of three has just played a Reverse on a clockwise game
C11_Witness ==
    /\ Played("Reverse")
    /\ NumPlayers = 3
    /\ before.current_turn = 1
    /\ before.direction = Clockwise
    /\ game.current_turn = 0

----------------------------------------------------------------------------
(* C12 *)

\* C12: a successful non-winning play of a DrawTwo sets pending_draws to
\* exactly 2 and moves current_turn one step in the current direction; the
\* deck and the other players' hands are as they were.
C12_DrawTwo ==
    (ValidPlayCalled /\ Played("DrawTwo"))
    => LET t == before.current_turn IN
       /\ game.pending_draws = 2
       /\ game.current_turn = StepFrom(t, before.direction, NumPlayers)
       /\ game.direction = before.direction
       /\ game.deck = before.deck
       /\ \A p \in 0..(NumPlayers - 1) :
              p # t => Hand(game, p) = Hand(before, p)

\* a DrawTwo has just been played by a player who owed four cards
C12_Witness ==
    /\ Played("DrawTwo")
    /\ before.pending_draws = 4
    /\ game.pending_draws = 2

----------------------------------------------------------------------------
(* C13 *)

\* C13: a successful non-winning play of a WildDrawFour sets pending_draws to
\* exactly 4 and moves current_turn one step in the current direction; played
\* by seat 1 of two, the turn is seat 0 with pending_draws 4.
C13_WildDrawFour ==
    (ValidPlayCalled /\ Played("WildDrawFour"))
    => LET t == before.current_turn IN
       /\ game.pending_draws = 4
       /\ game.current_turn = StepFrom(t, before.direction, NumPlayers)
       /\ game.direction = before.direction
       /\ (NumPlayers = 2 /\ t = 1) => game.current_turn = 0

\* seat 1 of two has just played a WildDrawFour
C13_Witness ==
    /\ Played("WildDrawFour")
    /\ NumPlayers = 2
    /\ before.current_turn = 1
    /\ game.current_turn = 0
    /\ game.pending_draws = 4

----------------------------------------------------------------------------
(* C14 *)

\* C14: after a successful non-winning play of a plain Wild, current_turn is
\* the seat it was before the call, and direction and pending_draws are
\* unchanged.
C14_WildKeepsTurn ==
    PlayedNonWinning("Wild")
    => /\ game.current_turn = before.current_turn
       /\ game.direction = before.direction
       /\ game.pending_draws = before.pending_draws

----------------------------------------------------------------------------
(* C15 *)

\* C15: a successful non-winning play of a WildDrawFour returns the
\* WildDrawFour event with player_id the player, next_player_id the new
\* current_turn and an empty cards list; one of a plain Wild returns
\* WildColorChosen for that player; neither returns CardPlayed.
C15_WildEvents ==
    /\ PlayedNonWinning("WildDrawFour")
           => /\ result.ret.value.tag = "WildDrawFour"
              /\ result.ret.value.player_id = before.current_turn
              /\ result.ret.value.next_player_id = game.current_turn
              /\ result.ret.value.cards = <<>>
    /\ PlayedNonWinning("Wild")
           => /\ result.ret.value.tag = "WildColorChosen"
              /\ result.ret.value.player_id = before.current_turn

----------------------------------------------------------------------------
(* C16 *)

\* C16: a successful non-winning play of a Number card by seat t moves
\* current_turn one step in the current direction, leaves direction and
\* pending_draws unchanged, moves exactly that card from the player's hand to
\* the top of the discard pile, and returns CardPlayed with player_id t and
\* the played card.
C16_Number ==
    PlayedNonWinning("Number")
    => LET t == before.current_turn
           i == result.card_index + 1
           hand == Hand(before, t)
       IN  /\ game.current_turn = StepFrom(t, before.direction, NumPlayers)
           /\ game.direction = before.direction
           /\ game.pending_draws = before.pending_draws
           /\ Len(Hand(game, t)) = Len(hand) - 1
           /\ \A k \in 1..Len(Hand(game, t)) :
                  Hand(game, t)[k] = IF k < i THEN hand[k] ELSE hand[k + 1]
           /\ \A p \in 0..(NumPlayers - 1) :
                  p # t => Hand(game, p) = Hand(before, p)
           /\ Len(game.discard_pile) = Len(before.discard_pile) + 1
           /\ SubSeq(game.discard_pile, 1, Len(before.discard_pile))
                  = before.discard_pile
           /\ TopCard(game) = hand[i]
           /\ game.deck = before.deck
           /\ result.ret.value.tag = "CardPlayed"
           /\ result.ret.value.player_id = t
           /\ result.ret.value.card = hand[i]

\* a Number card has just been played from the front of a hand of at least
\* three cards, on a counter-clockwise game
C16_Witness ==
    /\ PlayedNonWinning("Number")
    /\ result.card_index = 0
    /\ Len(Hand(before, before.current_turn)) >= 3
    /\ before.direction = CounterClockwise
    /\ TopCard(game) = NamedCard

----------------------------------------------------------------------------
(* C17 *)

\* C17: when pending_draws = k > 0 and the deck holds at least k cards,
\* draw_card by the current player moves exactly the k top cards of the deck
\* into that player's hand, resets pending_draws to 0, moves current_turn one
\* step in the current direction and returns DrawTwo{player_id, cards} with
\* exactly those k cards; k is 2 or 4.
C17_PendingDraw ==
    (/\ DrawCalled
     /\ before.pending_draws > 0
     /\ Len(before.deck) >= before.pending_draws
     /\ result.player_id = before.current_turn)
    => LET t == before.current_turn
           k == before.pending_draws
           cards == TopCards(before.deck, k)
       IN  /\ k \in {2, 4}
           /\ result.ret = Ok(DrawTwoEvent(t, cards))
           /\ Hand(game, t) = Hand(before, t) \o cards
           /\ game.deck = SubSeq(before.deck, 1, Len(before.deck) - k)
           /\ \A p \in 0..(NumPlayers - 1) :
                  p # t => Hand(game, p) = Hand(before, p)
           /\ game.discard_pile = before.discard_pile
           /\ game.pending_draws = 0
           /\ game.current_turn = StepFrom(t, before.direction, NumPlayers)
           /\ game.direction = before.direction

\* the player after a WildDrawFour has just drawn the four cards
C17_Witness ==
    /\ DrawCalled
    /\ before.pending_draws = 4
    /\ result.player_id = before.current_turn
    /\ result.ret.kind = "Ok"
    /\ Len(result.ret.value.cards) = 4
    /\ TopCard(before).card_type = WildDrawFour
    /\ game.pending_draws = 0

----------------------------------------------------------------------------
(* C18 *)

\* C18: when pending_draws = 0, draw_card by the current player on a
\* non-empty deck succeeds whatever the player holds, moves exactly the top
\* deck card into that player's hand, moves current_turn one step in the
\* current direction and returns CardDrawn with that card; on an empty deck
\* it fails with EmptyDeck and changes nothing.
C18_NormalDraw ==
    (/\ DrawCalled
     /\ before.pending_draws = 0
     /\ result.player_id = before.current_turn)
    => LET t == before.current_turn IN
       IF Len(before.deck) > 0
       THEN /\ result.ret = Ok(CardDrawn(t, VecLast(before.deck)))
            /\ Hand(game, t) = Append(Hand(before, t), VecLast(before.deck))
            /\ game.deck = VecPopped(before.deck)
            /\ \A p \in 0..(NumPlayers - 1) :
                   p # t => Hand(game, p) = Hand(before, p)
            /\ game.discard_pile = before.discard_pile
            /\ game.current_turn = StepFrom(t, before.direction, NumPlayers)
            /\ game.direction = before.direction
            /\ game.pending_draws = 0
       ELSE /\ result.ret = Err(GameError("EmptyDeck"))
            /\ game = before

\* the current player has just drawn although a card of the hand could be
\* played on the discard top
C18_Witness ==
    /\ DrawCalled
    /\ before.pending_draws = 0
    /\ before.status = InProgress
    /\ result.player_id = before.current_turn
    /\ result.ret.kind = "Ok"
    /\ result.ret.value.tag = "CardDrawn"
    /\ \E k \in 1..Len(Hand(before, before.current_turn)) :
           can_play_card(Hand(before, before.current_turn)[k], TopCard(before))
    /\ Len(game.deck) = Len(before.deck) - 1

----------------------------------------------------------------------------
(* C19 *)

\* C19: when pending_draws = k > 0 and the deck holds d < k cards, draw_card
\* returns EmptyDeck after moving all d cards into the player's hand; the
\* cards stay there, pending_draws is still k and current_turn has not moved.
C19_PartialDraw ==
    (/\ DrawCalled
     /\ result.player_id < NumPlayers
     /\ before.pending_draws > 0
     /\ Len(before.deck) < before.pending_draws)
    => LET p == result.player_id
           d == Len(before.deck)
       IN  /\ result.ret = Err(GameError("EmptyDeck"))
           /\ Hand(game, p) = Hand(before, p) \o TopCards(before.deck, d)
           /\ game.deck = <<>>
           /\ game.pending_draws = before.pending_draws
           /\ game.current_turn = before.current_turn
           /\ game.direction = before.direction
           /\ game.discard_pile = before.discard_pile

\* the player who owed four cards has just taken the two the deck had left
C19_Witness ==
    /\ DrawCalled
    /\ before.pending_draws = 4
    /\ Len(before.deck) = 2
    /\ result.player_id = before.current_turn
    /\ Len(Hand(game, result.player_id)) = Len(Hand(before, result.player_id)) + 2
    /\ game.pending_draws = 4
    /\ game.current_turn = before.current_turn

----------------------------------------------------------------------------
(* C20 *)

\* C20: from every seat s of every roster of N >= 2 players, N consecutive
\* next_turn calls with the direction unchanged bring current_turn back to s
\* after visiting every other seat exactly once, in increasing order modulo
\* N when Clockwise and in decreasing order when CounterClockwise; next_turn
\* changes no field other than current_turn.
C20_TurnCycling ==
    LET N == NumPlayers
        s == game.current_turn
        visit(k) == next_turns(game, k).current_turn
    IN  /\ N >= 2
        /\ visit(N) = s
        /\ \A k \in 1..N :
               visit(k) = IF game.direction = Clockwise
                          THEN (s + k) % N ELSE (s + N - k) % N
        /\ \A seat \in (0..(N - 1)) \ {s} :
               Cardinality({k \in 1..(N - 1) : visit(k) = seat}) = 1
        /\ \A k \in 1..(N - 1) : visit(k) # s
        /\ \A k \in 1..N :
               [next_turns(game, k) EXCEPT !.current_turn = s] = game
        /\ result.op = "next_turn"
               => game = [before EXCEPT !.current_turn =
                             StepFrom(@, before.direction, N)]

\* next_turn has just wrapped counter-clockwise from seat 0 to the last seat
\* of the largest roster
C20_Witness ==
    /\ result.op = "next_turn"
    /\ NumPlayers = MaxDealable
    /\ before.direction = CounterClockwise
    /\ before.current_turn = 0
    /\ game.current_turn = MaxDealable - 1

----------------------------------------------------------------------------
(* C21 *)

\* C21: in every state reachable by any sequence of play_card, draw_card,
\* next_turn and reverse_direction, 0 <= current_turn < players.len(); the
\* CounterClockwise step from seat 0 wraps to seat N-1.
C21_TurnInRange ==
    /\ game.current_turn >= 0
    /\ game.current_turn < Len(game.players)
    /\ (/\ result.op = "next_turn"
        /\ before.direction = CounterClockwise
        /\ before.current_turn = 0)
           => /\ result.ret = Ok("unit")
              /\ game.current_turn = Len(game.players) - 1

----------------------------------------------------------------------------
(* C22 *)

\* C22: the discard pile is never empty: it holds one card after
\* construction and no operation removes a card from it.
C22_DiscardNeverEmpty ==
    /\ Len(game.discard_pile) >= 1
    /\ result.op = "new" => Len(game.discard_pile) = 1
    /\ Len(game.discard_pile) >= Len(before.discard_pile)
    /\ SubSeq(game.discard_pile, 1, Len(before.discard_pile)) = before.discard_pile

\* draw_card has just found the deck empty, with cards played on the
\* discard pile
C22_Witness ==
    /\ DrawCalled
    /\ before.pending_draws = 0
    /\ Len(before.deck) = 0
    /\ result.ret = Err(GameError("EmptyDeck"))
    /\ Len(game.discard_pile) >= 2

----------------------------------------------------------------------------
(* C23 *)

\* C23: right after a successful new(names) with 2 <= n <= 13 names there
\* are n players with ids 0..n-1 and the names in input order, every hand
\* holds exactly 7 cards dealt round-robin one at a time from the deck top,
\* the discard pile holds exactly 1 card, the deck 108 - 7n - 1, and
\* current_turn = 0, direction = Clockwise, pending_draws = 0, status =
\* InProgress.
C23_Deal ==
    (/\ result.op = "new"
     /\ result.ret.kind = "Ok"
     /\ Len(result.player_names) \in 2..13)
    => LET n == Len(result.player_names)
           deck == result.deck
       IN  /\ Len(game.players) = n
           /\ \A p \in 0..(n - 1) :
                  /\ game.players[p + 1].id = p
                  /\ game.players[p + 1].name = result.player_names[p + 1]
                  /\ Len(Hand(game, p)) = 7
                  /\ \A r \in 0..6 :
                         Hand(game, p)[r + 1] = deck[Len(deck) - (r * n + p)]
           /\ Len(game.discard_pile) = 1
           /\ game.discard_pile[1] = <<deck[Len(deck) - 7 * n], UsizeMax>>
           /\ Len(game.deck) = 108 - 7 * n - 1
           /\ game.deck = SubSeq(deck, 1, 108 - 7 * n - 1)
           /\ game.current_turn = 0
           /\ game.direction = Clockwise
           /\ game.pending_draws = 0
           /\ game.status = InProgress

\* new has just dealt to thirteen players
C23_Witness ==
    /\ result.op = "new"
    /\ result.ret.kind = "Ok"
    /\ Len(result.player_names) = 13
    /\ Len(game.players) = 13
    /\ Len(game.deck) = 16

----------------------------------------------------------------------------
(* C24 *)

\* C24: new(names) returns Ok for every roster of at most 15 names and
\* Err(EmptyDeck) for every roster of 16 or more; it never panics and never
\* deals a short hand.
C24_NewFailsByExhaustion ==
    result.op = "new"
    => LET n == Len(result.player_names) IN
       /\ n <= 15 => result.ret.kind = "Ok" /\ game # NoGame
       /\ n >= 16 => result.ret = Err(GameError("EmptyDeck")) /\ game = NoGame
       /\ result.ret.kind # "Panic"
       /\ game # NoGame
              => /\ Len(game.players) = n
                 /\ \A p \in 0..(n - 1) : Len(Hand(game, p)) = 7

\* new has just refused sixteen names
C24_Witness ==
    /\ result.op = "new"
    /\ Len(result.player_names) = 16
    /\ result.ret = Err(GameError("EmptyDeck"))
    /\ game = NoGame

----------------------------------------------------------------------------
(* C25 *)

\* C25: every game that comes to exist, by UnoGame::new called directly, by
\* the HTTP create_game handler or after the console name prompt, has at
\* least two players.
C25_AtLeastTwoPlayers ==
    Created => Len(game.players) >= 2

----------------------------------------------------------------------------
(* C26 *)

\* C26: every deck initialize_deck returns holds exactly 108 cards: for each
\* of Red, Green, Blue, Yellow one Number(0), two of each Number(1..9), two
\* Skip, two Reverse and two DrawTwo, and four Wild and four WildDrawFour
\* colored Wild; the shuffle changes only the order.
C26_DeckComplete ==
    result.op \in {"new", "create_game", "GameController::new"}
    => LET deck == result.deck
           card(color, card_type) ==
               [color |-> color, card_type |-> card_type, player_id |-> None]
       IN  /\ Len(deck) = 108
           /\ \A color \in {"Red", "Green", "Blue", "Yellow"} :
                  /\ Count(deck, card(color, [tag |-> "Number", n |-> 0])) = 1
                  /\ \A n \in 1..9 :
                         Count(deck, card(color, [tag |-> "Number", n |-> n])) = 2
                  /\ \A tag \in {"Skip", "Reverse", "DrawTwo"} :
                         Count(deck, card(color, [tag |-> tag])) = 2
           /\ Count(deck, card("Wild", [tag |-> "Wild"])) = 4
           /\ Count(deck, card("Wild", [tag |-> "WildDrawFour"])) = 4
           /\ \A c \in {deck[i] : i \in 1..Len(deck)} :
                  Count(deck, c) = Count(UnshuffledDeck, c)

\* a game has just been made from a deck the shuffle put in another order
C26_Witness ==
    /\ result.op = "new"
    /\ result.ret.kind = "Ok"
    /\ result.deck # UnshuffledDeck
    /\ Len(result.deck) = 108

----------------------------------------------------------------------------
(* C27 *)

\* C27: for every pair of cards, can_play_card(card, top) is true if card
\* has color Wild or kind Wild/WildDrawFour; otherwise true if top has color
\* Wild; otherwise true exactly when the colors are equal or both are Number
\* cards of equal rank.  A Skip, Reverse or DrawTwo is not playable on a
\* differently colored, non-wild top card of the same kind.
C27_Legality ==
    result.op = "can_play_card"
    => LET card == result.card
           top == result.top_card
           wild == \/ card.color = "Wild"
                   \/ card.card_type.tag = "Wild"
                   \/ card.card_type.tag = "WildDrawFour"
           same_rank == /\ card.card_type.tag = "Number"
                        /\ top.card_type.tag = "Number"
                        /\ card.card_type.n = top.card_type.n
       IN  /\ result.ret.kind = "Ok"
           /\ result.ret.value \in BOOLEAN
           /\ wild => result.ret.value
           /\ (~wild /\ top.color = "Wild") => result.ret.value
           /\ (~wild /\ top.color # "Wild")
                  => (result.ret.value <=> (card.color = top.color \/ same_rank))
           /\ (/\ card.card_type.tag \in {"Skip", "Reverse", "DrawTwo"}
               /\ top.card_type = card.card_type
               /\ card.color # "Wild"
               /\ top.color # "Wild"
               /\ top.color # card.color)
                  => ~result.ret.value

\* a Skip has just been refused on a Skip of another color
C27_Witness ==
    /\ result.op = "can_play_card"
    /\ result.card = NewCard("Red", Skip)
    /\ result.top_card = NewCard("Blue", Skip)
    /\ result.ret = Ok(FALSE)

----------------------------------------------------------------------------
(* C28 *)

\* C28: after a Wild or WildDrawFour is played through the HTTP play handler
\* with a chosen color c of Red, Green, Blue, Yellow, the card on top of the
\* saved discard pile has color c, never Wild, and the legality check
\* against it uses c: every card of color c is playable on it, and a
\* non-wild card of another color with no matching number is not.
C28_WildColorBinding ==
    (/\ result.op = "http_play_card"
     /\ result.ret.kind = "Response"
     /\ result.ret.status = 200
     /\ Hand(before, before.current_turn)[result.card_index + 1].card_type.tag
            \in {"Wild", "WildDrawFour"})
    => LET c == CASE result.color = "red" -> "Red"
                  [] result.color = "Green" -> "Green"
                  [] result.color = "BLUE" -> "Blue"
                  [] result.color = "yellow" -> "Yellow"
                  [] OTHER -> "no color"
           top == TopCard(game)
           played == Hand(before, before.current_turn)[result.card_index + 1]
       IN  /\ c \in {"Red", "Green", "Blue", "Yellow"}
           /\ top.color = c
           /\ top.color # "Wild"
           /\ top.card_type = played.card_type
           /\ Len(game.discard_pile) = Len(before.discard_pile) + 1
           /\ \A card \in Cards :
                  /\ card.color = c => can_play_card(card, top)
                  /\ (/\ card \in NonWildCards
                      /\ card.color \notin {c, "Wild"}
                      /\ ~(/\ card.card_type.tag = "Number"
                           /\ top.card_type.tag = "Number"
                           /\ card.card_type.n = top.card_type.n))
                         => ~can_play_card(card, top)

\* a WildDrawFour has just been played over HTTP with the color BLUE, from a
\* hand that keeps other cards
C28_Witness ==
    /\ result.op = "http_play_card"
    /\ result.ret.kind = "Response"
    /\ result.ret.status = 200
    /\ result.color = "BLUE"
    /\ TopCard(game) = [color |-> "Blue", card_type |-> WildDrawFour, player_id |-> None]
    /\ game.status = InProgress

----------------------------------------------------------------------------
(* C29 *)

\* C29: no operation changes the color of a card of kind Number, Skip,
\* Reverse or DrawTwo, wherever it sits: each such card, color included,
\* occurs in the game after a call as often as before it.
C29_NonWildColorImmutable ==
    \A card \in NonWildCards : CountInGame(game, card) = CountInGame(before, card)

----------------------------------------------------------------------------
(* C30 *)

\* C30: reverse_direction toggles direction between Clockwise and
\* CounterClockwise and changes nothing else; calling it twice restores the
\* original direction.
C30_ReverseDirection ==
    /\ game.direction \in {Clockwise, CounterClockwise}
    /\ reverse_direction(game).direction # game.direction
    /\ reverse_direction(reverse_direction(game)) = game
    /\ result.op = "reverse_direction"
           => /\ before.direction = Clockwise => game.direction = CounterClockwise
              /\ before.direction = CounterClockwise => game.direction = Clockwise
              /\ [game EXCEPT !.direction = before.direction] = before

\* reverse_direction has just turned a counter-clockwise game, away from
\* seat 0, clockwise again
C30_Witness ==
    /\ result.op = "reverse_direction"
    /\ before.direction = CounterClockwise
    /\ game.direction = Clockwise
    /\ game.current_turn > 0

----------------------------------------------------------------------------
(* C31 *)

\* the game a session holds after a request is handled alone, from load to
\* save, on the session holding g
Handled(g, request) ==
    LET out == handle(g, request)
    IN  IF out.ret.status = 200 THEN out.game ELSE g

\* the games a session can hold after the requests reqs[i], i in todo, are
\* handled one after the other in some order
RECURSIVE SerialGames(_, _, _)
SerialGames(g, reqs, todo) ==
    IF todo = {}
    THEN {g}
    ELSE UNION {SerialGames(Handled(g, reqs[i]), reqs, todo \ {i}) : i \in todo}

\* the game in the session file
SavedGame == FromJson(sessions[RaceId]).value.game

\* C31: no update of a session is lost: when the play, draw and choose-color
\* requests sent for one session id, also at the same time, have all been
\* answered, the saved game is the one that handling them one after the
\* other, in some order, leaves.
C31_NoLostUpdate ==
    (/\ result.op = "http_answered"
     /\ inflight = NoRequests)
    => SavedGame \in SerialGames(before, result.answered, 1..Len(result.answered))

----------------------------------------------------------------------------
(* C32 *)

\* the seat the engine call made by the last request or loop iteration left
\* the turn at
EngineTurn ==
    CASE result.op = "http_play_card" ->
             play_card(before, before.current_turn, result.card_index).game.current_turn
      [] result.op = "http_draw_card" ->
             draw_card(before, before.current_turn).game.current_turn
      [] result.op = "controller_turn" /\ result.choice = "1" ->
             play_card(before, before.current_turn,
                       ParseIndex[result.line].value).game.current_turn
      [] result.op = "controller_turn" /\ result.choice = "2" ->
             draw_card(before, before.current_turn).game.current_turn
      [] OTHER -> before.current_turn

\* C32: the engine alone advances the turn: after a play or draw request
\* that was answered 200, and after an iteration of the console loop that
\* played or drew, current_turn is the seat the engine's play_card or
\* draw_card left it at; the caller advances it no further.
C32_EngineOwnsTurn ==
    /\ (/\ result.op \in {"http_play_card", "http_draw_card"}
        /\ result.ret.kind = "Response"
        /\ result.ret.status = 200)
       => game.current_turn = EngineTurn
    /\ (/\ result.op = "controller_turn"
        /\ result.choice \in {"1", "2"}
        /\ result.ret \in {Ok("next_turn"), Ok("return")})
       => game.current_turn = EngineTurn

----------------------------------------------------------------------------
(* C33 *)

\* the ids create_session has returned and no call has deleted since
LiveIds == DOMAIN result.created \ result.deleted

\* C33: after any sequence of create_session and delete_session calls (and
\* DELETE requests) on one SessionManager, list_sessions returns exactly the
\* ids created and not deleted since; load_session succeeds for exactly
\* those ids and returns the session with that id and the players stored
\* under it; GET /games/:id of a deleted or unknown id answers 404 NOT_FOUND.
C33_SessionStore ==
    /\ list_sessions(sessions) = Ok(LiveIds)
    /\ \A id \in RequestIds :
           LET loaded == load_session(sessions, id, ops)
           IN  /\ loaded.kind = "Ok" <=> id \in LiveIds
               /\ id \in LiveIds
                  => /\ loaded.value.id = id
                     /\ loaded.value.game.players = result.created[id].players
               /\ id \notin LiveIds => get_game(sessions, id, ops).status = 404
    /\ result.op = "list_sessions" => result.ret = Ok(LiveIds)
    /\ result.op = "load_session" => (result.ret.kind = "Ok" <=> result.id \in LiveIds)
    /\ result.op = "get_game" => (result.ret.status = 404 <=> result.id \notin LiveIds)

\* a GET of a session that was created and deleted has just been answered
\* 404 while another session is still stored
C33_Witness ==
    /\ result.op = "get_game"
    /\ result.id \in result.deleted
    /\ result.ret.status = 404
    /\ LiveIds # {}
    /\ \A id \in LiveIds : load_session(sessions, id, ops).kind = "Ok"

----------------------------------------------------------------------------
(* C34 *)

\* C34: draw_card(player_id) with player_id other than current_turn is
\* rejected with an error and changes nothing, so that only the current
\* player can take cards, settle a pending penalty or move the turn.
C34_DrawOutOfTurn ==
    (/\ DrawCalled
     /\ result.player_id < NumPlayers
     /\ result.player_id # before.current_turn)
    => /\ result.ret.kind = "Err"
       /\ game = before

----------------------------------------------------------------------------
(* C35 *)

\* C35: in every state reached through play_card and draw_card, every
\* player's hand is non-empty while the status is InProgress; a hand becomes
\* empty only through a play by its owner, and that play completes the game
\* for that player in the same step.
C35_HandsNonEmpty ==
    /\ game.status = InProgress
       => \A p \in 0..(NumPlayers - 1) : Len(Hand(game, p)) > 0
    /\ \A p \in 0..(NumPlayers - 1) :
           (Len(Hand(game, p)) = 0 /\ Len(Hand(before, p)) > 0)
           => /\ PlayCalled
              /\ result.player_id = p
              /\ result.ret = Ok(PlayerWins(p))
              /\ before.status = InProgress
              /\ game.status = Complete(p)

\* a player of a two-player game has just played the last card of the hand,
\* a Number, and the game is complete while the other player still holds
\* cards
C35_Witness ==
    /\ Won
    /\ NumPlayers = 2
    /\ TopCard(game).card_type.tag = "Number"
    /\ Len(Hand(before, result.player_id)) = 1
    /\ Len(Hand(game, result.player_id)) = 0
    /\ Len(Hand(game, 1 - result.player_id)) > 0
    /\ game.status = Complete(result.player_id)

----------------------------------------------------------------------------
(* C36 *)

\* C36: pending_draws is always 0, 2 or 4; a DrawTwo or WildDrawFour that is
\* played overwrites what is pending with 2 or 4 and never adds to it, no
\* other call raises or changes a pending penalty, and a pending penalty
\* goes back to 0 only through a draw_card that drew all of it.
C36_PendingDraws ==
    /\ game.pending_draws \in {0, 2, 4}
    /\ Played("DrawTwo") => game.pending_draws = 2
    /\ Played("WildDrawFour") => game.pending_draws = 4
    /\ game.pending_draws # before.pending_draws
       => \/ Played("DrawTwo")
          \/ Played("WildDrawFour")
          \/ /\ DrawCalled
             /\ game.pending_draws = 0
             /\ result.ret.kind = "Ok"
             /\ result.ret.value.tag = "DrawTwo"
             /\ Len(result.ret.value.cards) = before.pending_draws

\* a WildDrawFour has just been played on a pending penalty of two, and four
\* cards are owed, not six
C36_Witness ==
    /\ Played("WildDrawFour")
    /\ before.pending_draws = 2
    /\ game.pending_draws = 4

----------------------------------------------------------------------------
(* C37 *)

\* the measure of a game: twice the deck plus the cards in the hands
Measure(g) == 2 * Len(g.deck) + HandTotal(g.players, Len(g.players))

\* some play_card or draw_card call on this game would return Ok
SomeMoveSucceeds(g) ==
    \E p \in 0..(Len(g.players) - 1) :
        \/ draw_card(g, p).ret.kind = "Ok"
        \/ \E i \in 0..(Len(Hand(g, p)) - 1) : play_card(g, p, i).ret.kind = "Ok"

\* C37: every game is finite: no call ever makes the deck longer (it is never
\* refilled from the discard pile), the measure 2 * deck.len() + sum of the
\* hand lengths is a natural number that every successful play_card or
\* draw_card makes strictly smaller, and successful moves run out only in a
\* game that is Complete or whose deck is exhausted.
C37_Finite ==
    /\ Len(game.deck) <= Len(before.deck)
    /\ Measure(game) >= 0
    /\ ((PlayCalled \/ DrawCalled) /\ result.ret.kind = "Ok")
       => Measure(game) < Measure(before)
    /\ ~SomeMoveSucceeds(game)
       => (game.status.tag = "Complete" \/ Len(game.deck) = 0)

\* a card has just been drawn in a game that was complete already: the
\* measure went down by one although no card can be played any more
C37_Witness ==
    /\ DrawCalled
    /\ result.ret.kind = "Ok"
    /\ before.status.tag = "Complete"
    /\ Measure(game) = Measure(before) - 1
    /\ Len(game.deck) = Len(before.deck) - 1

----------------------------------------------------------------------------
(* C38 *)

\* the players' ids and names, in seat order
Roster(g) == [k \in 1..Len(g.players) |-> <<g.players[k].id, g.players[k].name>>]

\* C38: draw_card never changes the discard pile, the direction, the status
\* or any hand but the drawing player's; play_card never changes the deck or
\* any hand but the playing player's, takes exactly one card from that hand
\* when it succeeds and none when it fails, and changes the direction only
\* when a Reverse that is not the hand's last card is played; the number of
\* players, their ids and their names never change.
C38_Frame ==
    /\ Roster(game) = Roster(before)
    /\ DrawCalled
       => /\ game.discard_pile = before.discard_pile
          /\ game.direction = before.direction
          /\ game.status = before.status
          /\ \A p \in 0..(NumPlayers - 1) :
                 p # result.player_id => Hand(game, p) = Hand(before, p)
    /\ PlayCalled
       => /\ game.deck = before.deck
          /\ \A p \in 0..(NumPlayers - 1) :
                 p # result.player_id => Hand(game, p) = Hand(before, p)
          /\ result.ret.kind = "Ok"
             => Hand(game, result.player_id)
                    = VecRemove(Hand(before, result.player_id), result.card_index)
          /\ result.ret.kind # "Ok" => game.players = before.players
          /\ game.direction # before.direction => Played("Reverse")

\* a DrawTwo has just been played in a game of three or more players whose
\* deck holds the two cards: the deck and the other hands are as they were
C38_Witness ==
    /\ Played("DrawTwo")
    /\ NumPlayers >= 3
    /\ Len(before.deck) >= 2
    /\ game.deck = before.deck
    /\ Len(Hand(game, result.player_id)) = Len(Hand(before, result.player_id)) - 1
    /\ Hand(game, game.current_turn) = Hand(before, game.current_turn)

----------------------------------------------------------------------------
(* C39 *)

\* the last iteration of main's loop played a card
MainPlayed ==
    /\ result.op = "main_turn"
    /\ result.choice = "1"
    /\ result.ret.call.kind = "Ok"

\* the card it played
MainCard == Hand(before, before.current_turn)[ParseIndex[result.line].value + 1]

\* C39: in main.rs's console loop the penalty cards of a played DrawTwo go to
\* the player who takes the next turn in the current direction of play, also
\* when the direction is CounterClockwise and three or more players are
\* seated; they are the deck's top cards, exactly two whenever the deck holds
\* at least two.
C39_DrawTwoTarget ==
    (MainPlayed /\ MainCard.card_type.tag = "DrawTwo")
    => LET t == before.current_turn
           next_player == StepFrom(t, before.direction, NumPlayers)
           k == IF Len(before.deck) < 2 THEN Len(before.deck) ELSE 2
       IN  /\ Hand(game, next_player) = Hand(before, next_player) \o TopCards(before.deck, k)
           /\ game.deck = SubSeq(before.deck, 1, Len(before.deck) - k)
           /\ result.ret.flow = "next_turn" => game.current_turn = next_player

----------------------------------------------------------------------------
(* C40 *)

\* C40: in main.rs's console loop, whenever a successful play empties the
\* hand of the player who made it, the loop announces that player, the one
\* current_turn names, as the winner and stops in that same iteration,
\* whatever kind the last card is; and no further turn is offered while
\* some player holds an empty hand.
C40_WinDetected ==
    /\ (MainPlayed /\ Len(Hand(game, before.current_turn)) = 0)
       => /\ result.ret.flow = "break"
          /\ game.current_turn = before.current_turn
    /\ (\E p \in 0..(NumPlayers - 1) : Len(Hand(game, p)) = 0)
       => /\ result.ret.kind = "Loop"
          /\ result.ret.flow = "break"

====
